---- MODULE Spec2Model ----
(***************************************************************************)
(* Verdict reconciliation of sv-comp/scripts/prepare_tables:               *)
(* adjust_results_verifiers.py combines a verifier run with the runs of    *)
(* witness validators and witness linters into one (status, category).     *)
(*                                                                         *)
(* Strings are sequences of tokens, so that split("("), startswith,        *)
(* endswith and the f-strings of the source are computed, not assumed.     *)
(***************************************************************************)
EXTENDS Integers, Sequences, FiniteSets, TLC

VARIABLES
    results_file,   \* the results XML of the verifier as it is on disk: [name, runs]
    verifier_runs,  \* BenchmarkRuns of the verifier, parsed from it and adjusted in place
    validators,     \* list of BenchmarkRuns of the validators
    linters,        \* list of BenchmarkRuns of the witness linters
    invalid_tasks,  \* set of task names banned from the competition
    calls,          \* the get_validation_result calls made for the task: pool and result
    for_run,        \* the tuple get_validation_results_for_run returned for the task
    pc,             \* position of the batch: "start", "done", or the name of another entry point
    pair,           \* arguments and result of one get_validator_linter_result call
    database,       \* mkAnaDatabaseWitnesses: one row of the data frame and its classification
    scores          \* mkAnaScores: the category data being aggregated

vars ==
    <<results_file, verifier_runs, validators, linters, invalid_tasks, calls, for_run, pc, pair, database, scores>>

----------------------------------------------------------------------------
(* Bounds of the model *)

MaxValidators == 2
MaxLinters == 2

----------------------------------------------------------------------------
(* Python values *)

\* None, for a status, a category or an attribute that is not there
None == <<"\\None">>

\* the only task of the modelled run sets
TaskName == <<"../sv-benchmarks/c/array-examples/sanfoundry_24-1.yml">>

Prefix(p, s) == Len(p) <= Len(s) /\ SubSeq(s, 1, Len(p)) = p

\* str.startswith
startswith(s, p) == Prefix(p, s)

\* str.endswith for a suffix of one token
endswith(s, tok) == Len(s) >= 1 /\ s[Len(s)] = tok

\* s.split("(")[0]: the tokens before the first "("
SplitParen0(s) ==
    LET idx == {i \in 1..Len(s) : s[i] = "("}
        first == CHOOSE i \in idx : \A j \in idx : i <= j
    IN  IF idx = {} THEN s ELSE SubSeq(s, 1, first - 1)

\* re.search(pattern, s) for a pattern of one token
Search(tok, s) == \E i \in 1..Len(s) : s[i] = tok

----------------------------------------------------------------------------
(* benchexec.result categories, as the strings benchexec defines *)

CATEGORY_CORRECT == <<"correct">>
CATEGORY_CORRECT_UNCONFIRMED == <<"correct", "-unconfirmed">>
CATEGORY_WRONG == <<"wrong">>
CATEGORY_UNKNOWN == <<"unknown">>
CATEGORY_ERROR == <<"error">>
CATEGORY_MISSING == <<"missing">>

(* class WitnessLintErrors(Enum), in definition order *)
WITNESS_INVALID == <<"witness invalid">>
WITNESS_VERSION_MISMATCH == <<"witness-version mismatch">>
WITNESS_TYPE_MISMATCH == <<"witness-type mismatch">>
WITNESS_MISSING == <<"witness missing">>
RESULT_INVALID == <<"result invalid">>

\* faulty variant: the enumeration begins with the missing witness
WitnessLintErrors_MissingFirst ==
    <<WITNESS_MISSING, WITNESS_INVALID, WITNESS_VERSION_MISMATCH, WITNESS_TYPE_MISMATCH,
      RESULT_INVALID>>

WitnessLintErrors ==
    <<WITNESS_INVALID, WITNESS_VERSION_MISMATCH, WITNESS_TYPE_MISMATCH,
      WITNESS_MISSING, RESULT_INVALID>>

\* f"{tag} ({status})"
Tagged(tag, status) == tag \o <<" ", "(">> \o status \o <<")">>

(* statuses the witness linter reports *)
ERROR_INVALID_WITNESS_SYNTAX == <<"ERROR ", "(", "invalid witness syntax", ")">>
ERROR_WITNESS_DOES_NOT_EXIST == <<"ERROR ", "(", "witness does not exist", ")">>
ERROR_UNEXPECTED_WITNESS_TYPE == <<"ERROR ", "(", "unexpected witness type", ")">>
ERROR_UNEXPECTED_WITNESS_VERSION == <<"ERROR ", "(", "unexpected witness version", ")">>

----------------------------------------------------------------------------
(* Run elements: <run name=.. properties=.. expectedVerdict=..> with columns *)

EmptyColumns == [t \in {} |-> None]

\* a run that is None (BenchmarkRun("", "", None), dict.get() without entry)
NoRun == [name |-> None, properties |-> None, expectedVerdict |-> None,
          columns |-> EmptyColumns]

\* run.find('column[@title=...]') is not None
HasColumn(run, title) == run # NoRun /\ title \in DOMAIN run.columns

\* run.find('column[@title=...]').get("value")
ColumnValue(run, title) == run.columns[title]

\* column.set("value", v), or append of a new column element
SetColumn(run, title, v) ==
    [run EXCEPT !.columns =
        [t \in DOMAIN run.columns \cup {title} |->
            IF t = title THEN v ELSE run.columns[t]]]

\* BenchmarkRuns.as_dictionary.get(name)
RunOf(runs, name) == IF name \in DOMAIN runs.runs THEN runs.runs[name] ELSE NoRun

----------------------------------------------------------------------------
(* get_validator_linter_result: one candidate run against the verifier run *)

Result(status, category) == [status |-> status, category |-> category]

\* the try/except AttributeError around the two column reads of the verifier run
VerificationStatus(verification_run) ==
    IF HasColumn(verification_run, "status") /\ HasColumn(verification_run, "category")
    THEN ColumnValue(verification_run, "status")
    ELSE <<"not found">>

VerificationCategory(verification_run) ==
    IF HasColumn(verification_run, "status") /\ HasColumn(verification_run, "category")
    THEN ColumnValue(verification_run, "category")
    ELSE CATEGORY_MISSING

\* faulty variant: the exclusion of valid-memsafety is forgotten
MainStatusAgrees_IgnoringProperty(main_status_from_verification, main_status_from_validation, property_is_memsafety) ==
    main_status_from_verification = main_status_from_validation

\* the main result strings match, and the property is not valid-memsafety
MainStatusAgrees(main_status_from_verification, main_status_from_validation, property_is_memsafety) ==
    main_status_from_verification = main_status_from_validation
        /\ ~property_is_memsafety

\* faulty variant: the tag of another lint error is used
InvalidWitnessResult_TaggedMissing(status_from_verification) ==
    Result(Tagged(WITNESS_MISSING, status_from_verification), CATEGORY_ERROR)

\* 1) an invalid witness counts as error of the verifier
InvalidWitnessResult(status_from_verification) ==
    Result(Tagged(WITNESS_INVALID, status_from_verification), CATEGORY_ERROR)

\* faulty variant: every unconfirmed result counts as correct-unconfirmed
OtherResult_AlwaysUnconfirmed(status_from_verification, category_from_verification) ==
    Result(status_from_verification, CATEGORY_CORRECT_UNCONFIRMED)

\* any other candidate status: unconfirmed for a correct result, else invalid
OtherResult(status_from_verification, category_from_verification) ==
    IF category_from_verification = CATEGORY_CORRECT
    THEN Result(status_from_verification, CATEGORY_CORRECT_UNCONFIRMED)
    ELSE Result(Tagged(RESULT_INVALID, status_from_verification), CATEGORY_ERROR)

get_validator_linter_result(validator_linter_run, verification_run) ==
    IF validator_linter_run = NoRun
    THEN Result(<<"validation run missing">>, CATEGORY_ERROR)
    ELSE
    LET status_from_validation == ColumnValue(validator_linter_run, "status")
        status_from_verification == VerificationStatus(verification_run)
        category_from_verification == VerificationCategory(verification_run)
        main_status_from_verification == SplitParen0(status_from_verification)
        main_status_from_validation == SplitParen0(status_from_validation)
        property_is_memsafety ==
            validator_linter_run.properties = <<"valid-memsafety">>
    IN  IF status_from_validation = status_from_verification
        THEN Result(status_from_verification, category_from_verification)
        ELSE IF MainStatusAgrees(main_status_from_verification,
                                 main_status_from_validation, property_is_memsafety)
        THEN Result(status_from_verification, category_from_verification)
        ELSE IF status_from_validation = ERROR_INVALID_WITNESS_SYNTAX
        THEN InvalidWitnessResult(status_from_verification)
        ELSE IF status_from_validation = ERROR_WITNESS_DOES_NOT_EXIST
        THEN Result(Tagged(WITNESS_MISSING, status_from_verification), CATEGORY_ERROR)
        ELSE IF status_from_validation = ERROR_UNEXPECTED_WITNESS_TYPE
        THEN Result(Tagged(WITNESS_TYPE_MISMATCH, status_from_verification), CATEGORY_ERROR)
        ELSE IF status_from_validation = ERROR_UNEXPECTED_WITNESS_VERSION
        THEN Result(Tagged(WITNESS_VERSION_MISMATCH, status_from_verification), CATEGORY_ERROR)
        ELSE OtherResult(status_from_verification, category_from_verification)

----------------------------------------------------------------------------
(* get_validation_result: the linters, then the validators, of one pool *)

CoverageProperties == {<<"coverage-error-call">>, <<"coverage-branches">>}

\* Decimal(text) for the texts of the model; -1 stands for InvalidOperation.
\* The value is kept in hundredths, so that Decimal(x) / 100 is exact.
DecimalOf(text) ==
    IF text = <<"0">> THEN 0
    ELSE IF text = <<"25">> THEN 25
    ELSE IF text = <<"50">> THEN 50
    ELSE IF text = <<"100">> THEN 100
    ELSE -1

\* value.replace("%", "")
StripPercent(text) == SelectSeq(text, LAMBDA tok : tok # "%")

\* faulty variant: the later value wins
Max_Later(a, b) == b

Max(a, b) == IF a >= b THEN a ELSE b

\* faulty variant: any previous linter result is kept, a rejection too
KeepPreviousLinterResult_AnyResult(category_wit) == category_wit # None

\* "Previous linter has found the witness to be good, so we do not change the verdict."
KeepPreviousLinterResult(category_wit) ==
    category_wit # None /\ category_wit # CATEGORY_ERROR

\* faulty variant: the rejection of the linters does not end the call
LintersReject_Never(category_wit) == FALSE

\* all witness linters report an error: the result of the verifier is not counted
LintersReject(category_wit) == category_wit = CATEGORY_ERROR

\* faulty variant: a confirmation does not replace an accepted unconfirmed result
AcceptValidatorResult_FirstOnly(category_wit, category_wit_new) ==
    \/ category_wit = None
    \/ ~startswith(category_wit, CATEGORY_CORRECT)

\* faulty variant: an unconfirmed result replaces an accepted confirmation
AcceptValidatorResult_AnyCorrect(category_wit, category_wit_new) ==
    \/ category_wit = None
    \/ ~startswith(category_wit, CATEGORY_CORRECT)
    \/ startswith(category_wit_new, CATEGORY_CORRECT)

\* faulty variant: every validator result replaces the accepted one
AcceptValidatorResult_Always(category_wit, category_wit_new) == TRUE

\* a validator result replaces the result accepted so far
AcceptValidatorResult(category_wit, category_wit_new) ==
    \/ category_wit = None
    \/ ~startswith(category_wit, CATEGORY_CORRECT)
    \/ category_wit_new = CATEGORY_CORRECT

\* the loop over the linters, from linter i on
RECURSIVE LinterLoop(_, _, _, _)
LinterLoop(verifier_run, linter_list, i, wit) ==
    IF i > Len(linter_list) THEN wit
    ELSE
    LET linter_run == RunOf(linter_list[i], verifier_run.name)
        new == get_validator_linter_result(linter_run, verifier_run)
    IN  IF linter_run = NoRun
        THEN LinterLoop(verifier_run, linter_list, i + 1, wit)
        ELSE IF KeepPreviousLinterResult(wit.category)
        THEN LinterLoop(verifier_run, linter_list, i + 1, wit)
        ELSE LinterLoop(verifier_run, linter_list, i + 1, new)

\* one iteration of the loop over the validators
ValidatorStep(verifier_run, validation_run, status_from_verification, acc) ==
    IF validation_run = NoRun THEN acc
    ELSE IF verifier_run.properties = <<"coverage-error-call">>
    THEN IF ColumnValue(validation_run, "status") = <<"true">>
         THEN [acc EXCEPT !.status_wit = status_from_verification,
                          !.category_wit = CATEGORY_CORRECT,
                          !.category_from_verification = CATEGORY_CORRECT,
                          !.coverage_wit = Max(@, 100)]
         ELSE acc
    ELSE IF verifier_run.properties = <<"coverage-branches">>
    THEN LET coverage_value ==
                 IF HasColumn(validation_run, "branches_covered")
                 THEN DecimalOf(StripPercent(ColumnValue(validation_run, "branches_covered")))
                 ELSE 0
         IN  [acc EXCEPT !.status_wit = status_from_verification,
                         !.category_wit = CATEGORY_CORRECT,
                         !.category_from_verification = CATEGORY_CORRECT,
                         !.coverage_wit = IF coverage_value = -1 THEN @
                                          ELSE Max(@, coverage_value)]
    ELSE LET new == get_validator_linter_result(validation_run, verifier_run)
         IN  IF AcceptValidatorResult(acc.category_wit, new.category)
             THEN [acc EXCEPT !.status_wit = new.status, !.category_wit = new.category]
             ELSE acc

RECURSIVE ValidatorLoop(_, _, _, _, _)
ValidatorLoop(verifier_run, validator_list, i, status_from_verification, acc) ==
    IF i > Len(validator_list) THEN acc
    ELSE ValidatorLoop(verifier_run, validator_list, i + 1, status_from_verification,
            ValidatorStep(verifier_run, RunOf(validator_list[i], verifier_run.name),
                          status_from_verification, acc))

\* print_decimal of a value kept in hundredths: "0", "0.25", "0.5", "1"
print_decimal(h) ==
    IF h = 0 THEN <<"0">>
    ELSE IF h = 100 THEN <<"1">>
    ELSE IF h = 50 THEN <<"0", ".", "5">>
    ELSE <<"0", ".", "25">>

\* the tuple returned after the loop over the validators, with the verifier run as
\* the call leaves it (its score column)
ResultAfterValidators(verifier_run, status_from_verification, acc) ==
    [status_wit |-> acc.status_wit, category_wit |-> acc.category_wit,
     status_from_verification |-> status_from_verification,
     category_from_verification |-> acc.category_from_verification,
     run |-> IF verifier_run.properties \in CoverageProperties
             THEN SetColumn(verifier_run, "score", print_decimal(acc.coverage_wit))
             ELSE verifier_run]

\* the call from the end of the loop over the linters on; lint is the result of
\* that loop
ResultAfterLinters(verifier_run, validator_list, status_from_verification, category_from_verification, lint) ==
    IF LintersReject(lint.category)
    THEN [status_wit |-> lint.status, category_wit |-> lint.category,
          status_from_verification |-> status_from_verification,
          category_from_verification |-> category_from_verification,
          run |-> verifier_run]
    ELSE ResultAfterValidators(verifier_run, status_from_verification,
             ValidatorLoop(verifier_run, validator_list, 1, status_from_verification,
                 [status_wit |-> lint.status, category_wit |-> lint.category,
                  category_from_verification |-> category_from_verification,
                  coverage_wit |-> 0]))

get_validation_result(verifier_run, validator_list, linter_list, status_from_verification, category_from_verification) ==
    ResultAfterLinters(verifier_run, validator_list,
        status_from_verification, category_from_verification,
        LinterLoop(verifier_run, linter_list, 1, Result(None, None)))

----------------------------------------------------------------------------
(* get_validation_results_for_run: the GraphML pool, then the YAML pool *)

\* which pools a linter run set joins for the task (source lines 318-340)
InGraphmlPool(linter, task_name) ==
    LET linter_run == RunOf(linter, task_name)
    IN  IF linter_run = NoRun THEN TRUE
        ELSE IF ~HasColumn(linter_run, "witnesslint-witness-file") THEN TRUE
        ELSE IF endswith(ColumnValue(linter_run, "witnesslint-witness-file"), ".graphml")
        THEN TRUE
        ELSE ~endswith(ColumnValue(linter_run, "witnesslint-witness-file"), ".yml")

InYmlPool(linter, task_name) ==
    LET linter_run == RunOf(linter, task_name)
    IN  IF linter_run = NoRun THEN TRUE
        ELSE IF ~HasColumn(linter_run, "witnesslint-witness-file") THEN TRUE
        ELSE IF endswith(ColumnValue(linter_run, "witnesslint-witness-file"), ".graphml")
        THEN FALSE
        ELSE TRUE

graphml_linters(linter_sets, task_name) ==
    SelectSeq(linter_sets, LAMBDA l : InGraphmlPool(l, task_name))

yml_linters(linter_sets, task_name) ==
    SelectSeq(linter_sets, LAMBDA l : InYmlPool(l, task_name))

\* for err in WitnessLintErrors: the first error kind that the YAML status or,
\* failing that, the GraphML status starts with decides which pool is returned
RECURSIVE FirstLintError(_, _, _)
FirstLintError(statusYml, statusGraphml, k) ==
    IF k > Len(WitnessLintErrors) THEN "none"
    ELSE IF statusYml # None /\ startswith(statusYml, WitnessLintErrors[k]) THEN "yml"
    ELSE IF statusGraphml # None /\ startswith(statusGraphml, WitnessLintErrors[k])
    THEN "graphml"
    ELSE FirstLintError(statusYml, statusGraphml, k + 1)

\* faulty variant: the category of the verifier is returned as it was
UnconfirmedResult_KeepsCategory(status_from_verification, graphml, run) ==
    [status_wit |-> status_from_verification,
     category_wit |-> graphml.category_from_verification,
     status_from_verification |-> graphml.status_from_verification,
     category_from_verification |-> graphml.category_from_verification,
     run |-> run]

\* "If no validator confirmed a witness, and no linter rejected a witness,
\* then the result is just unconfirmed."
UnconfirmedResult(status_from_verification, graphml, run) ==
    [status_wit |-> status_from_verification,
     category_wit |-> CATEGORY_CORRECT_UNCONFIRMED,
     status_from_verification |-> graphml.status_from_verification,
     category_from_verification |-> graphml.category_from_verification,
     run |-> run]

\* the decision once both pools are queried and neither confirmed the witness
ResultOfBothPools(status_from_verification, graphml, yml) ==
    LET which == FirstLintError(yml.status_wit, graphml.status_wit, 1)
    IN  IF graphml.category_wit = CATEGORY_ERROR /\ yml.category_wit = CATEGORY_ERROR
            /\ which = "yml"
        THEN yml
        ELSE IF graphml.category_wit = CATEGORY_ERROR /\ yml.category_wit = CATEGORY_ERROR
            /\ which = "graphml"
        THEN [graphml EXCEPT !.run = yml.run]
        ELSE UnconfirmedResult(status_from_verification, graphml, yml.run)

\* the call from the return of the YAML query on; result is the tuple returned and
\* calls the get_validation_result calls made, in call order
AfterYmlQuery(status_from_verification, graphml_pool, graphml, yml_pool, yml) ==
    [result |-> IF yml.category_wit = CATEGORY_CORRECT THEN yml
                ELSE ResultOfBothPools(status_from_verification, graphml, yml),
     calls |-> <<[linters |-> graphml_pool, result |-> graphml],
                 [linters |-> yml_pool, result |-> yml]>>]

\* the call from the return of the GraphML query on
AfterGraphmlQuery(validator_sets, status_from_verification, category_from_verification, graphml_pool, graphml, yml_pool) ==
    IF graphml.category_wit = CATEGORY_CORRECT
    THEN [result |-> graphml, calls |-> <<[linters |-> graphml_pool, result |-> graphml]>>]
    ELSE AfterYmlQuery(status_from_verification, graphml_pool, graphml, yml_pool,
             get_validation_result(graphml.run, validator_sets, yml_pool,
                 status_from_verification, category_from_verification))

\* the call from the separation of the linters on
QueryPools(verification_run, validator_sets, status_from_verification, category_from_verification, graphml_pool, yml_pool) ==
    AfterGraphmlQuery(validator_sets, status_from_verification,
        category_from_verification, graphml_pool,
        get_validation_result(verification_run, validator_sets, graphml_pool,
            status_from_verification, category_from_verification),
        yml_pool)

\* get_validation_results_for_run with the record of its get_validation_result calls
SeparateAndQuery(verification_run, validator_sets, linter_sets, status_from_verification, category_from_verification) ==
    QueryPools(verification_run, validator_sets,
        status_from_verification, category_from_verification,
        graphml_linters(linter_sets, verification_run.name),
        yml_linters(linter_sets, verification_run.name))

get_validation_results_for_run(verification_run, validator_sets, linter_sets, status_from_verification, category_from_verification) ==
    SeparateAndQuery(verification_run, validator_sets, linter_sets,
                     status_from_verification, category_from_verification).result

\* the calls of get_validation_result that get_validation_results_for_run makes:
\* the linters of the pool and the tuple returned, in call order
ValidationCalls(verification_run, validator_sets, linter_sets, status_from_verification, category_from_verification) ==
    SeparateAndQuery(verification_run, validator_sets, linter_sets,
                     status_from_verification, category_from_verification).calls

----------------------------------------------------------------------------
(* adjust_status_category *)

\* the categories of SV-COMP whose expected verdict 'true' is not overwritten
ExemptPatterns ==
    {"-Arrays", "-Floats", "-Heap", "MemSafety", "MemCleanup", "NoDataRace",
     "ConcurrencySafety-", "Termination", "-Java"}

\* faulty variant: the pattern list lacks its last alternative
IsExemptRunSet_WithoutJava(name) ==
    Search("SV-COMP", name) /\ \E pat \in ExemptPatterns \ {"-Java"} : Search(pat, name)

IsExemptRunSet(name) ==
    Search("SV-COMP", name) /\ \E pat \in ExemptPatterns : Search(pat, name)

set_status_and_category_for_run(existing_run, new_status, new_category) ==
    SetColumn(SetColumn(existing_run, "status", new_status), "category", new_category)

\* faulty variant: the overwrite is not restricted to verifier results of category correct
MayOverwrite_AnyCategory(res) ==
    /\ res.status_wit # None
    /\ res.category_wit # None

\* "Overwrite status with status from validator or linter"
MayOverwrite(res) ==
    /\ res.category_from_verification = CATEGORY_CORRECT
    /\ res.status_wit # None
    /\ res.category_wit # None

\* "Overwrite status with status from validator or linter"
Overwrite(res) ==
    IF MayOverwrite(res)
    THEN set_status_and_category_for_run(res.run, res.status_wit, res.category_wit)
    ELSE res.run

\* the run reconciled: the loop body from the read of the category on
Reconcile(run, validator_sets, linter_sets, status_from_verification) ==
    Overwrite(get_validation_results_for_run(run, validator_sets, linter_sets,
                  status_from_verification,
                  IF HasColumn(run, "category") THEN ColumnValue(run, "category")
                  ELSE CATEGORY_MISSING))

\* the loop body from the invalid-task check on
AdjustRunWithStatus(run, run_set_name, validator_sets, linter_sets, invalid, status_from_verification) ==
    IF run.name \in invalid
    THEN set_status_and_category_for_run(run,
             Tagged(<<"invalid task">>, status_from_verification), CATEGORY_MISSING)
    ELSE IF IsExemptRunSet(run_set_name) /\ run.expectedVerdict = <<"true">>
    THEN run
    ELSE Reconcile(run, validator_sets, linter_sets, status_from_verification)

\* the body of the loop over the runs of the verifier, for one run
AdjustRun(run, run_set_name, validator_sets, linter_sets, invalid) ==
    AdjustRunWithStatus(run, run_set_name, validator_sets, linter_sets, invalid,
        IF HasColumn(run, "status") THEN ColumnValue(run, "status") ELSE <<"not found">>)

\* no call of get_validation_results_for_run was made for the run
NotQueried ==
    [status_wit |-> None, category_wit |-> None, status_from_verification |-> None,
     category_from_verification |-> None, run |-> NoRun]

\* the tuple that get_validation_results_for_run returns for one run
ResultForRun(run, run_set_name, validator_sets, linter_sets, invalid) ==
    IF run.name \in invalid THEN NotQueried
    ELSE IF IsExemptRunSet(run_set_name) /\ run.expectedVerdict = <<"true">> THEN NotQueried
    ELSE get_validation_results_for_run(run, validator_sets, linter_sets,
             IF HasColumn(run, "status") THEN ColumnValue(run, "status")
             ELSE <<"not found">>,
             IF HasColumn(run, "category") THEN ColumnValue(run, "category")
             ELSE CATEGORY_MISSING)

\* the get_validation_result calls made for one run
CallsForRun(run, run_set_name, validator_sets, linter_sets, invalid) ==
    IF run.name \in invalid THEN <<>>
    ELSE IF IsExemptRunSet(run_set_name) /\ run.expectedVerdict = <<"true">> THEN <<>>
    ELSE ValidationCalls(run, validator_sets, linter_sets,
             IF HasColumn(run, "status") THEN ColumnValue(run, "status")
             ELSE <<"not found">>,
             IF HasColumn(run, "category") THEN ColumnValue(run, "category")
             ELSE CATEGORY_MISSING)

adjust_status_category(runs, validator_sets, linter_sets, invalid) ==
    [runs EXCEPT !.runs =
        [t \in DOMAIN runs.runs |->
            AdjustRun(runs.runs[t], runs.name, validator_sets, linter_sets, invalid)]]

----------------------------------------------------------------------------
(* The inputs of the model *)

Run(name, properties, expectedVerdict, columns) ==
    [name |-> name, properties |-> properties, expectedVerdict |-> expectedVerdict,
     columns |-> columns]

StatusAndCategory(s, c) ==
    [t \in {"status", "category"} |-> IF t = "status" THEN s ELSE c]

StatusOnly(s) == [t \in {"status"} |-> s]

StatusAndWitnessFile(s, f) ==
    [t \in {"status", "witnesslint-witness-file"} |-> IF t = "status" THEN s ELSE f]

FALSE_DEREF == <<"false", "(", "valid-deref", ")">>
FALSE_MEMTRACK == <<"false", "(", "valid-memtrack", ")">>

Properties ==
    {<<"unreach-call">>, <<"valid-memsafety">>,
     <<"coverage-error-call">>, <<"coverage-branches">>}

ExpectedVerdicts == {<<"true">>, <<"false">>}

RunSet(name, runs) == [name |-> name, runs |-> runs]

NoRuns == [t \in {} |-> NoRun]

OneRun(run) == [t \in {run.name} |-> run]

\* The run sets of a validator or linter with one run of the given columns for the
\* task; the run carries the property of the task.
EvidenceRunSets(tool, properties, columns) ==
    {RunSet(tool, OneRun(Run(TaskName, properties, None, c))) : c \in columns}

ListsUpTo(S, n) == UNION {[1..k -> S] : k \in 0..n}

Idle == [cand |-> NoRun, ver |-> NoRun, out |-> Result(None, None)]

PlainRunSetName == <<"SV-COMP", "25_", "ReachSafety", "-Loops">>

(* Inputs of Spec: the results benchexec writes (the category follows from status
   and expected verdict), against every list of validators and linters. *)

VerifierRows ==
    {Run(TaskName, None, <<"true">>, StatusAndCategory(<<"true">>, CATEGORY_CORRECT)),
     Run(TaskName, None, <<"false">>, StatusAndCategory(FALSE_DEREF, CATEGORY_CORRECT)),
     Run(TaskName, None, <<"true">>, StatusAndCategory(FALSE_DEREF, CATEGORY_WRONG)),
     Run(TaskName, None, <<"true">>, StatusAndCategory(<<"TIMEOUT">>, CATEGORY_ERROR)),
     Run(TaskName, None, <<"false">>, StatusAndCategory(<<"unknown">>, CATEGORY_UNKNOWN)),
     Run(TaskName, None, None, StatusAndCategory(<<"true">>, CATEGORY_MISSING)),
     Run(TaskName, None, <<"true">>, EmptyColumns)}

ValidatorStatuses ==
    {<<"true">>, FALSE_DEREF, FALSE_MEMTRACK, <<"TIMEOUT">>, ERROR_INVALID_WITNESS_SYNTAX}

ValidatorColumns == {StatusOnly(s) : s \in ValidatorStatuses}

WitnessFiles == {<<"witness", ".graphml">>, <<"witness", ".yml">>}

LinterColumns ==
    {StatusOnly(s) : s \in {<<"done">>, ERROR_INVALID_WITNESS_SYNTAX}}
    \cup
    {StatusAndWitnessFile(ERROR_INVALID_WITNESS_SYNTAX, f) : f \in WitnessFiles}

(* Inputs of SpecFrame: every status, category, property, expected verdict and
   run-set name of the verifier, and the invalid-task list. *)

FrameColumns == {row.columns : row \in VerifierRows}

FrameRunSetNames ==
    {<<"SV-COMP", "25_", pat>> : pat \in ExemptPatterns}
    \cup {PlainRunSetName, <<"Test-Comp", "25_", "Termination">>}

FrameValidatorColumns ==
    {StatusOnly(s) : s \in {<<"true">>, FALSE_DEREF, ERROR_INVALID_WITNESS_SYNTAX}}

FrameLinterColumns == {StatusOnly(s) : s \in {<<"done">>, ERROR_INVALID_WITNESS_SYNTAX}}

----------------------------------------------------------------------------
(* The batch of main(): the parsed inputs, then adjust_status_category *)

\* The linters are "for verification only, not for test-case generation": the
\* inputs of a coverage property hold no linter run set.
LinterLists(properties) ==
    IF properties \in CoverageProperties THEN {<<>>}
    ELSE ListsUpTo({RunSet(<<"witnesslint">>, NoRuns)} \cup
                       EvidenceRunSets(<<"witnesslint">>, properties, LinterColumns),
                   MaxLinters)

Init ==
    /\ \E properties \in Properties :
        /\ \E row \in VerifierRows :
              results_file =
                  RunSet(PlainRunSetName, OneRun([row EXCEPT !.properties = properties]))
        /\ validators \in
              ListsUpTo({RunSet(<<"validator">>, NoRuns)} \cup
                            EvidenceRunSets(<<"validator">>, properties, ValidatorColumns),
                        MaxValidators)
        /\ linters \in LinterLists(properties)
    /\ verifier_runs = results_file
    /\ invalid_tasks = {}
    /\ calls = <<>>
    /\ for_run = NotQueried
    /\ database = None
    /\ scores = None
    /\ pc = "start"
    /\ pair = Idle

FrameLinterLists(properties) ==
    IF properties \in CoverageProperties THEN {<<>>}
    ELSE ListsUpTo(EvidenceRunSets(<<"witnesslint">>, properties, FrameLinterColumns),
                   MaxLinters)

InitFrame ==
    /\ \E properties \in Properties :
        /\ \E e \in ExpectedVerdicts, cols \in FrameColumns, n \in FrameRunSetNames :
              results_file = RunSet(n, OneRun(Run(TaskName, properties, e, cols)))
        /\ validators \in
              ListsUpTo({RunSet(<<"validator">>, NoRuns)} \cup
                            EvidenceRunSets(<<"validator">>, properties,
                                            FrameValidatorColumns),
                        MaxValidators)
        /\ linters \in FrameLinterLists(properties)
    /\ verifier_runs = results_file
    /\ invalid_tasks \in {{}, {TaskName}}
    /\ calls = <<>>
    /\ for_run = NotQueried
    /\ database = None
    /\ scores = None
    /\ pc = "start"
    /\ pair = Idle

AdjustStatusCategory ==
    /\ pc = "start"
    /\ verifier_runs' =
           adjust_status_category(verifier_runs, validators, linters, invalid_tasks)
    /\ calls' = CallsForRun(verifier_runs.runs[TaskName], verifier_runs.name,
                            validators, linters, invalid_tasks)
    /\ for_run' = ResultForRun(verifier_runs.runs[TaskName], verifier_runs.name,
                               validators, linters, invalid_tasks)
    /\ pc' = "done"
    /\ UNCHANGED <<results_file, validators, linters, invalid_tasks, pair, database, scores>>

Next == AdjustStatusCategory

Spec == Init /\ [][Next]_vars

SpecFrame == InitFrame /\ [][Next]_vars

----------------------------------------------------------------------------
(* The batch on the results of test generation: runs of the coverage properties
   against test validators that report the branches they covered *)

FIFTY_PERCENT == <<"fifty percent">>

\* the texts of the column branches_covered
BranchesCovered == {<<"0">>, <<"25", "%">>, <<"50">>, <<"100", "%">>, FIFTY_PERCENT}

StatusAndBranchesCovered(s, b) ==
    [t \in {"status", "branches_covered"} |-> IF t = "status" THEN s ELSE b]

CoverageValidatorColumns ==
    {StatusOnly(<<"true">>), StatusOnly(<<"done">>)}
    \cup {StatusAndBranchesCovered(<<"done">>, b) : b \in BranchesCovered}

InitCoverage ==
    /\ \E properties \in CoverageProperties :
        /\ \E row \in VerifierRows :
              results_file =
                  RunSet(<<"Test-Comp", "25_", "Cover-Branches">>,
                         OneRun([row EXCEPT !.properties = properties]))
        /\ validators \in
              ListsUpTo({RunSet(<<"validator">>, NoRuns)} \cup
                            EvidenceRunSets(<<"validator">>, properties,
                                            CoverageValidatorColumns),
                        MaxValidators)
    /\ linters = <<>>
    /\ verifier_runs = results_file
    /\ invalid_tasks = {}
    /\ calls = <<>>
    /\ for_run = NotQueried
    /\ database = None
    /\ scores = None
    /\ pc = "start"
    /\ pair = Idle

SpecCoverage == InitCoverage /\ [][Next]_vars

----------------------------------------------------------------------------
(* The batch on linters that each checked one witness of the task, GraphML or YAML,
   and report any of the lint errors *)

LintErrors ==
    {ERROR_INVALID_WITNESS_SYNTAX, ERROR_WITNESS_DOES_NOT_EXIST,
     ERROR_UNEXPECTED_WITNESS_TYPE, ERROR_UNEXPECTED_WITNESS_VERSION}

PoolLinterColumns ==
    {StatusAndWitnessFile(s, f) : s \in LintErrors \cup {<<"done">>}, f \in WitnessFiles}

PoolValidatorColumns == {StatusOnly(<<"true">>), StatusOnly(ERROR_WITNESS_DOES_NOT_EXIST)}

InitPools ==
    /\ \E row \in VerifierRows :
          results_file =
              RunSet(PlainRunSetName, OneRun([row EXCEPT !.properties = <<"unreach-call">>]))
    /\ validators \in
          ListsUpTo(EvidenceRunSets(<<"validator">>, <<"unreach-call">>, PoolValidatorColumns),
                    MaxValidators)
    /\ linters \in
          ListsUpTo(EvidenceRunSets(<<"witnesslint">>, <<"unreach-call">>, PoolLinterColumns),
                    MaxLinters)
    /\ verifier_runs = results_file
    /\ invalid_tasks = {}
    /\ calls = <<>>
    /\ for_run = NotQueried
    /\ database = None
    /\ scores = None
    /\ pc = "start"
    /\ pair = Idle

SpecPools == InitPools /\ [][Next]_vars

----------------------------------------------------------------------------
(* One call of get_validator_linter_result, as the unit tests make it *)

FALSE_DEREF_SPACED == <<"false ", "(", "valid-deref", ")">>

PairCandidateStatuses ==
    {<<"true">>, FALSE_DEREF, FALSE_MEMTRACK, FALSE_DEREF_SPACED, <<"TIMEOUT">>,
     <<"done">>, ERROR_INVALID_WITNESS_SYNTAX, ERROR_WITNESS_DOES_NOT_EXIST,
     ERROR_UNEXPECTED_WITNESS_TYPE, ERROR_UNEXPECTED_WITNESS_VERSION}

PairCandidates ==
    {NoRun} \cup
    {Run(TaskName, p, None, StatusOnly(s)) :
        p \in {<<"unreach-call">>, <<"valid-memsafety">>}, s \in PairCandidateStatuses}

PairVerifierRuns ==
    {NoRun, Run(TaskName, None, None, EmptyColumns),
     Run(TaskName, None, None, StatusOnly(<<"true">>))} \cup
    {Run(TaskName, None, None, StatusAndCategory(s, c)) :
        s \in {<<"true">>, FALSE_DEREF, <<"TIMEOUT">>},
        c \in {CATEGORY_CORRECT, CATEGORY_CORRECT_UNCONFIRMED, CATEGORY_WRONG,
               CATEGORY_ERROR, CATEGORY_UNKNOWN, CATEGORY_MISSING}}

InitPair ==
    /\ results_file = RunSet(PlainRunSetName, NoRuns)
    /\ verifier_runs = results_file
    /\ validators = <<>>
    /\ linters = <<>>
    /\ invalid_tasks = {}
    /\ calls = <<>>
    /\ for_run = NotQueried
    /\ database = None
    /\ scores = None
    /\ pc = "call"
    /\ pair \in [cand : PairCandidates, ver : PairVerifierRuns, out : {Result(None, None)}]

GetValidatorLinterResult ==
    /\ pc = "call"
    /\ pair' = [pair EXCEPT !.out = get_validator_linter_result(pair.cand, pair.ver)]
    /\ pc' = "returned"
    /\ UNCHANGED <<results_file, verifier_runs, validators, linters, invalid_tasks, calls,
                   for_run, database, scores>>

NextPair == GetValidatorLinterResult

SpecPair == InitPair /\ [][NextPair]_vars

----------------------------------------------------------------------------
(* Vocabulary of the properties *)

RunBefore == results_file.runs[TaskName]
RunAfter == verifier_runs.runs[TaskName]

StatusOf(run) == IF HasColumn(run, "status") THEN ColumnValue(run, "status") ELSE None
CategoryOf(run) == IF HasColumn(run, "category") THEN ColumnValue(run, "category") ELSE None

Adjusted == pc = "done"

NotInvalid == TaskName \notin invalid_tasks

StatusAndCategoryUnchanged ==
    StatusOf(RunAfter) = StatusOf(RunBefore) /\ CategoryOf(RunAfter) = CategoryOf(RunBefore)

\* the run sets of a list that hold a run for the task
WithRun(run_sets) == {i \in 1..Len(run_sets) : TaskName \in DOMAIN run_sets[i].runs}

RunIn(run_sets, i) == run_sets[i].runs[TaskName]

\* the run set name matches one of the patterns of the exempt categories
NameIsExempt ==
    /\ \E i \in 1..Len(results_file.name) : results_file.name[i] = "SV-COMP"
    /\ \E i \in 1..Len(results_file.name) :
          results_file.name[i] \in
              {"-Arrays", "-Floats", "-Heap", "MemSafety", "MemCleanup", "NoDataRace",
               "ConcurrencySafety-", "Termination", "-Java"}

\* the run is handed to get_validation_results_for_run
SubjectToReconciliation ==
    NotInvalid /\ ~(NameIsExempt /\ RunBefore.expectedVerdict = <<"true">>)

IsCoverageRun == RunBefore.properties \in {<<"coverage-error-call">>, <<"coverage-branches">>}

\* a candidate status agrees with the verifier's: equal, or equal up to the
\* parenthesised qualifier unless the candidate run's property is valid-memsafety
MainPart(s) ==
    IF \E i \in 1..Len(s) : s[i] = "("
    THEN SubSeq(s, 1, (CHOOSE i \in 1..Len(s) : s[i] = "(" /\ \A j \in 1..(i - 1) : s[j] # "(") - 1)
    ELSE s

Agrees(candidate_run, status) ==
    \/ candidate_run.columns["status"] = status
    \/ /\ MainPart(candidate_run.columns["status"]) = MainPart(status)
       /\ candidate_run.properties # <<"valid-memsafety">>

LintErrorStatuses ==
    {<<"ERROR ", "(", "invalid witness syntax", ")">>,
     <<"ERROR ", "(", "witness does not exist", ")">>,
     <<"ERROR ", "(", "unexpected witness type", ")">>,
     <<"ERROR ", "(", "unexpected witness version", ")">>}

ReportsLintError(run_sets, i) == RunIn(run_sets, i).columns["status"] \in LintErrorStatuses

\* a test validator's run rewrites the result of a coverage property
CoverageValidated ==
    \/ /\ RunBefore.properties = <<"coverage-branches">>
       /\ WithRun(validators) # {}
    \/ /\ RunBefore.properties = <<"coverage-error-call">>
       /\ \E i \in WithRun(validators) : RunIn(validators, i).columns["status"] = <<"true">>

----------------------------------------------------------------------------
(* C1 *)

\* C1, as stated: a verifier run that is not an invalid task and whose category is
\* not CORRECT (WRONG, ERROR, UNKNOWN, MISSING or absent) keeps its status and
\* category, for every property and every list of validators and linters.
C1_NonCorrectUnchangedForEveryProperty ==
    (Adjusted /\ NotInvalid /\ CategoryOf(RunBefore) # <<"correct">>)
        => StatusAndCategoryUnchanged

\* C1, amended: a verifier run that is not an invalid task and whose category is
\* not CORRECT keeps its status and category, unless its property is a coverage
\* property and a test validator has a run for the task (for coverage-error-call:
\* a run of status "true").
C1_NonCorrectUnchanged ==
    (Adjusted /\ NotInvalid /\ CategoryOf(RunBefore) # <<"correct">> /\ ~CoverageValidated)
        => StatusAndCategoryUnchanged

\* C1, a reachable case: a WRONG run was reconciled against a validator that agrees
\* with it and a linter that reports a lint error, and kept its status and category.
C1_Witness ==
    /\ Adjusted /\ SubjectToReconciliation
    /\ CategoryOf(RunBefore) = <<"wrong">>
    /\ RunBefore.properties = <<"unreach-call">>
    /\ \E i \in WithRun(validators) : Agrees(RunIn(validators, i), StatusOf(RunBefore))
    /\ \E i \in WithRun(linters) : ReportsLintError(linters, i)
    /\ Len(calls) = 2
    /\ StatusAndCategoryUnchanged

----------------------------------------------------------------------------
(* C10 *)

\* C10: in an SV-COMP run set whose name matches an exempt category pattern, a run
\* of expected verdict "true" that is not an invalid task is left as it is, whatever
\* the validators and linters report; a run of expected verdict "false" is still
\* reconciled: a CORRECT result that no validator confirms does not stay CORRECT.
C10_ExemptTrueUntouched ==
    (Adjusted /\ NotInvalid /\ NameIsExempt) =>
        /\ RunBefore.expectedVerdict = <<"true">> => RunAfter = RunBefore
        /\ ( /\ RunBefore.expectedVerdict = <<"false">>
             /\ CategoryOf(RunBefore) = <<"correct">>
             /\ ~IsCoverageRun
             /\ \A i \in WithRun(validators) :
                    ~Agrees(RunIn(validators, i), StatusOf(RunBefore)) )
           => /\ CategoryOf(RunAfter) \in {<<"correct", "-unconfirmed">>, <<"error">>}
              /\ Len(calls) = 2

\* C10, a reachable case: a CORRECT run of expected verdict "true" in an exempt run set was
\* left alone although a linter reports a lint error on its witness.
C10_Witness ==
    /\ Adjusted /\ NotInvalid /\ NameIsExempt
    /\ RunBefore.expectedVerdict = <<"true">>
    /\ CategoryOf(RunBefore) = <<"correct">>
    /\ \E i \in WithRun(linters) : ReportsLintError(linters, i)
    /\ calls = <<>>
    /\ RunAfter = RunBefore

----------------------------------------------------------------------------
(* Vocabulary of the claims about validators and linters *)

Confirms(i) == i \in WithRun(validators) /\ Agrees(RunIn(validators, i), StatusOf(RunBefore))

Approves(i) == i \in WithRun(linters) /\ RunIn(linters, i).columns["status"] = <<"done">>

Rejects(i) == i \in WithRun(linters) /\ ReportsLintError(linters, i)

WitnessFileEnds(i, suffix) ==
    /\ "witnesslint-witness-file" \in DOMAIN RunIn(linters, i).columns
    /\ LET f == RunIn(linters, i).columns["witnesslint-witness-file"]
       IN  Len(f) >= 1 /\ f[Len(f)] = suffix

\* the linters with a run that are consulted for the GraphML and for the YAML pool
GraphmlPool == {i \in WithRun(linters) : ~WitnessFileEnds(i, ".yml")}
YmlPool == {i \in WithRun(linters) : ~WitnessFileEnds(i, ".graphml")}

InvalidWitnessStatus(status) == <<"witness invalid", " ", "(">> \o status \o <<")">>

----------------------------------------------------------------------------
(* C2 *)

\* C2: a CORRECT verifier run whose witness a linter approves and that at least one
\* validator confirms (its status agrees with the verifier's) has category CORRECT
\* and its own status after adjust_status_category, wherever the confirming validator
\* stands in the list and whatever the other validators report.
C2_ConfirmedStaysCorrect ==
    ( /\ Adjusted /\ SubjectToReconciliation
      /\ CategoryOf(RunBefore) = <<"correct">>
      /\ \E i \in 1..Len(linters) : Approves(i)
      /\ \E i \in 1..Len(validators) : Confirms(i) )
    => /\ CategoryOf(RunAfter) = <<"correct">>
       /\ StatusOf(RunAfter) = StatusOf(RunBefore)

\* C2, a reachable case: the confirming validator stands last, behind one that timed out.
C2_Witness ==
    /\ Adjusted
    /\ CategoryOf(RunBefore) = <<"correct">>
    /\ \E i \in 1..Len(linters) : Approves(i)
    /\ Len(validators) = 2
    /\ RunOf(validators[1], TaskName) # NoRun
    /\ RunIn(validators, 1).columns["status"] = <<"TIMEOUT">>
    /\ Confirms(2)
    /\ CategoryOf(RunAfter) = <<"correct">>

----------------------------------------------------------------------------
(* C3 *)

\* C3, as stated (for the verification properties): if the linter reports a lint
\* error on the witness (every linter that has a run for the task does), a CORRECT
\* run ends with category ERROR for every validator verdict, and a WRONG run stays
\* WRONG.
C3_LintErrorIsError ==
    ( /\ Adjusted /\ SubjectToReconciliation /\ ~IsCoverageRun
      /\ WithRun(linters) # {}
      /\ \A i \in WithRun(linters) : Rejects(i) )
    => /\ CategoryOf(RunBefore) = <<"correct">> => CategoryOf(RunAfter) = <<"error">>
       /\ CategoryOf(RunBefore) = <<"wrong">> => CategoryOf(RunAfter) = <<"wrong">>

\* C3, amended: if in each of the two witness pools (GraphML, YAML) at least one
\* linter has a run for the task and every such linter reports a lint error, a
\* CORRECT run ends with category ERROR for every validator verdict, and a WRONG run
\* stays WRONG.  (A linter run that names a .graphml or .yml witness file belongs to
\* that pool only; the validators decide in a pool that no linter rejects.)
C3_LintErrorInBothPoolsIsError ==
    ( /\ Adjusted /\ SubjectToReconciliation /\ ~IsCoverageRun
      /\ GraphmlPool # {} /\ \A i \in GraphmlPool : Rejects(i)
      /\ YmlPool # {} /\ \A i \in YmlPool : Rejects(i) )
    => /\ CategoryOf(RunBefore) = <<"correct">> => CategoryOf(RunAfter) = <<"error">>
       /\ CategoryOf(RunBefore) = <<"wrong">> => CategoryOf(RunAfter) = <<"wrong">>

\* C3, a reachable case: a CORRECT run with a rejecting linter in both pools ended as ERROR
\* although a validator confirms it.
C3_Witness ==
    /\ Adjusted
    /\ CategoryOf(RunBefore) = <<"correct">>
    /\ GraphmlPool # {} /\ \A i \in GraphmlPool : Rejects(i)
    /\ YmlPool # {} /\ \A i \in YmlPool : Rejects(i)
    /\ \E i \in 1..Len(validators) : Confirms(i)
    /\ CategoryOf(RunAfter) = <<"error">>

----------------------------------------------------------------------------
(* C4 *)

\* the result of one linter of a get_validation_result call against the verifier run
LinterResult(call, i) == get_validator_linter_result(RunIn(call.linters, i), RunBefore)

ReturnedOf(call) == Result(call.result.status_wit, call.result.category_wit)

\* C4, as stated: in get_validation_result, as soon as a linter with a run for the
\* task yields an error result and no earlier linter gave a non-error result, that
\* linter's status and category are the result; no later linter and no validator
\* changes them.
C4_FirstRejectingLinterDecides ==
    Adjusted =>
        \A c \in 1..Len(calls) : \A i \in WithRun(calls[c].linters) :
            ( /\ LinterResult(calls[c], i).category = <<"error">>
              /\ \A j \in WithRun(calls[c].linters) :
                    j < i => LinterResult(calls[c], j).category = <<"error">> )
            => ReturnedOf(calls[c]) = LinterResult(calls[c], i)

\* C4, amended: in get_validation_result the linters reject only together.  If at
\* least one linter of the pool has a run for the task and every linter with a run
\* yields an error result, the status and category of the last of them are the
\* result and no validator changes them; a linter that yields a non-error result,
\* before or after a rejecting one, replaces the rejection: the validators are
\* consulted and the result is no error.
C4_LintersRejectOnlyTogether ==
    Adjusted =>
        \A c \in 1..Len(calls) :
            LET W == WithRun(calls[c].linters)
                last == CHOOSE i \in W : \A j \in W : j <= i
            IN  /\ ( /\ W # {}
                     /\ \A i \in W : LinterResult(calls[c], i).category = <<"error">> )
                   => ReturnedOf(calls[c]) = LinterResult(calls[c], last)
                /\ (\E i \in W : LinterResult(calls[c], i).category # <<"error">>)
                   => calls[c].result.category_wit
                          \in {<<"correct">>, <<"correct", "-unconfirmed">>}

\* C4, a reachable case: two linters of one pool both reject, a validator confirms, and the
\* call returns the rejection.
C4_Witness ==
    /\ Adjusted
    /\ \E i \in 1..Len(validators) : Confirms(i)
    /\ \E c \in 1..Len(calls) :
          /\ Len(calls[c].linters) = 2
          /\ WithRun(calls[c].linters) = {1, 2}
          /\ \A i \in {1, 2} : LinterResult(calls[c], i).category = <<"error">>
          /\ calls[c].result.category_wit = <<"error">>

----------------------------------------------------------------------------
(* C5 *)

\* C5: if a linter run set holds no run for the task, this counts as a validation
\* error of that linter: a CORRECT verifier run for the task ends with category
\* ERROR, whatever the validators report.
C5_MissingLinterRunIsError ==
    ( /\ Adjusted /\ SubjectToReconciliation
      /\ CategoryOf(RunBefore) = <<"correct">>
      /\ \E i \in 1..Len(linters) : i \notin WithRun(linters) )
    => CategoryOf(RunAfter) = <<"error">>

----------------------------------------------------------------------------
(* C6 *)

\* C6, as stated (for the verification properties): if some validator's status for
\* the task is "ERROR (invalid witness syntax)", a CORRECT run ends with status
\* "witness invalid (<original status>)" and category ERROR, regardless of the other
\* validators and of the order of the validators.
C6_InvalidSyntaxIsError ==
    ( /\ Adjusted /\ SubjectToReconciliation /\ ~IsCoverageRun
      /\ CategoryOf(RunBefore) = <<"correct">>
      /\ \E i \in WithRun(validators) :
            RunIn(validators, i).columns["status"]
                = <<"ERROR ", "(", "invalid witness syntax", ")">> )
    => /\ StatusOf(RunAfter) = InvalidWitnessStatus(StatusOf(RunBefore))
       /\ CategoryOf(RunAfter) = <<"error">>

\* C6, amended: if "ERROR (invalid witness syntax)" is the only evidence for the task
\* of a verification property (no linter has a run for the task, at least one
\* validator has one, and every validator run for the task has this status), a
\* CORRECT run ends with status "witness invalid (<original status>)" and category
\* ERROR.
C6_InvalidSyntaxAloneIsError ==
    ( /\ Adjusted /\ SubjectToReconciliation /\ ~IsCoverageRun
      /\ CategoryOf(RunBefore) = <<"correct">>
      /\ WithRun(linters) = {}
      /\ WithRun(validators) # {}
      /\ \A i \in WithRun(validators) :
            RunIn(validators, i).columns["status"]
                = <<"ERROR ", "(", "invalid witness syntax", ")">> )
    => /\ StatusOf(RunAfter) = InvalidWitnessStatus(StatusOf(RunBefore))
       /\ CategoryOf(RunAfter) = <<"error">>

\* C6, a reachable case: two validators, both with "ERROR (invalid witness syntax)", and no
\* linter run: the run ended as "witness invalid (...)", ERROR.
C6_Witness ==
    /\ Adjusted /\ ~IsCoverageRun
    /\ CategoryOf(RunBefore) = <<"correct">>
    /\ WithRun(linters) = {}
    /\ WithRun(validators) = {1, 2}
    /\ \A i \in {1, 2} :
          RunIn(validators, i).columns["status"]
              = <<"ERROR ", "(", "invalid witness syntax", ")">>
    /\ StatusOf(RunAfter) = InvalidWitnessStatus(StatusOf(RunBefore))
    /\ CategoryOf(RunAfter) = <<"error">>

----------------------------------------------------------------------------
(* C9 *)

\* C9, as stated (for the verification properties): if no validator confirms the
\* witness and no linter rejects it, a CORRECT run that is subject to reconciliation
\* ends with category CORRECT_UNCONFIRMED and its original status, and a run of
\* another category is left unchanged; empty lists of validators and linters included.
C9_UnconfirmedWithoutConfirmation ==
    ( /\ Adjusted /\ SubjectToReconciliation /\ ~IsCoverageRun
      /\ \A i \in 1..Len(validators) : ~Confirms(i)
      /\ \A i \in 1..Len(linters) : ~Rejects(i) )
    => IF CategoryOf(RunBefore) = <<"correct">>
       THEN /\ CategoryOf(RunAfter) = <<"correct", "-unconfirmed">>
            /\ StatusOf(RunAfter) = StatusOf(RunBefore)
       ELSE StatusAndCategoryUnchanged

\* C9, amended: if no validator confirms the witness, no validator reports one of
\* the four witness-lint errors, and no linter rejects the witness, a CORRECT run of a
\* verification property that is subject to reconciliation ends with category
\* CORRECT_UNCONFIRMED and its original status, and a run of another category is left
\* unchanged; empty lists of validators and linters included.
C9_UnconfirmedWithoutConfirmationOrLintError ==
    ( /\ Adjusted /\ SubjectToReconciliation /\ ~IsCoverageRun
      /\ \A i \in 1..Len(validators) : ~Confirms(i)
      /\ \A i \in WithRun(validators) : ~ReportsLintError(validators, i)
      /\ \A i \in 1..Len(linters) : ~Rejects(i) )
    => IF CategoryOf(RunBefore) = <<"correct">>
       THEN /\ CategoryOf(RunAfter) = <<"correct", "-unconfirmed">>
            /\ StatusOf(RunAfter) = StatusOf(RunBefore)
       ELSE StatusAndCategoryUnchanged

\* C9, a reachable case: an approving linter and two validators that timed out left a CORRECT
\* run as CORRECT_UNCONFIRMED.
C9_Witness ==
    /\ Adjusted /\ ~IsCoverageRun
    /\ CategoryOf(RunBefore) = <<"correct">>
    /\ \E i \in 1..Len(linters) : Approves(i)
    /\ \A i \in 1..Len(linters) : ~Rejects(i)
    /\ WithRun(validators) = {1, 2}
    /\ \A i \in {1, 2} : RunIn(validators, i).columns["status"] = <<"TIMEOUT">>
    /\ CategoryOf(RunAfter) = <<"correct", "-unconfirmed">>
    /\ StatusOf(RunAfter) = StatusOf(RunBefore)

----------------------------------------------------------------------------
(* C7 and C8: get_validator_linter_result *)

Returned == pc = "returned"

BothColumns(run) == run # NoRun /\ {"status", "category"} \subseteq DOMAIN run.columns

\* status and category of the verifier as the call reads them
PairStatus == IF BothColumns(pair.ver) THEN pair.ver.columns["status"] ELSE <<"not found">>
PairCategory == IF BothColumns(pair.ver) THEN pair.ver.columns["category"] ELSE <<"missing">>

\* the candidate run neither agrees with the verifier nor reports a lint error
OtherCandidate ==
    /\ pair.cand # NoRun
    /\ ~Agrees(pair.cand, PairStatus)
    /\ pair.cand.columns["status"] \notin LintErrorStatuses

\* C7, as stated: for a candidate status that neither agrees with the verifier's nor
\* is one of the four linter errors, a CORRECT verifier result comes back with its
\* status and category CORRECT_UNCONFIRMED; any other comes back with the verifier's
\* category unchanged and the status "result invalid (<verifier status>)".
C7_OtherKeepsCategory ==
    (Returned /\ OtherCandidate) =>
        IF PairCategory = <<"correct">>
        THEN pair.out = Result(PairStatus, <<"correct", "-unconfirmed">>)
        ELSE pair.out =
                 Result(<<"result invalid", " ", "(">> \o PairStatus \o <<")">>, PairCategory)

\* C7, amended: for a candidate status that neither agrees with the verifier's nor
\* is one of the four linter errors, a CORRECT verifier result comes back with its
\* status and category CORRECT_UNCONFIRMED; any other comes back with category ERROR
\* and the status "result invalid (<verifier status>)".
C7_OtherIsUnconfirmedOrError ==
    (Returned /\ OtherCandidate) =>
        IF PairCategory = <<"correct">>
        THEN pair.out = Result(PairStatus, <<"correct", "-unconfirmed">>)
        ELSE pair.out =
                 Result(<<"result invalid", " ", "(">> \o PairStatus \o <<")">>, <<"error">>)

\* C7, a reachable case: a WRONG verifier result against a validator that timed out came back
\* as "result invalid (...)", ERROR.
C7_Witness ==
    /\ Returned /\ OtherCandidate
    /\ PairCategory = <<"wrong">>
    /\ pair.cand.columns["status"] = <<"TIMEOUT">>
    /\ pair.out.category = <<"error">>
    /\ pair.out.status = <<"result invalid", " ", "(">> \o PairStatus \o <<")">>

\* the candidate status differs from the verifier's only in the parenthesised qualifier
QualifierMismatch ==
    /\ pair.cand # NoRun
    /\ pair.cand.columns["status"] # PairStatus
    /\ MainPart(pair.cand.columns["status"]) = MainPart(PairStatus)

\* C8: a candidate status that differs from the verifier's only in its parenthesised
\* qualifier counts as agreement: status and category of the verifier pass through
\* unchanged; except when the candidate run's property is valid-memsafety, where only
\* identical status strings agree and a qualifier mismatch turns CORRECT into
\* CORRECT_UNCONFIRMED.
C8_QualifierAgreement ==
    Returned =>
        /\ (QualifierMismatch /\ pair.cand.properties # <<"valid-memsafety">>)
           => pair.out = Result(PairStatus, PairCategory)
        /\ (QualifierMismatch /\ pair.cand.properties = <<"valid-memsafety">>
                /\ PairCategory = <<"correct">>)
           => pair.out = Result(PairStatus, <<"correct", "-unconfirmed">>)
        /\ (pair.cand # NoRun /\ pair.cand.columns["status"] = PairStatus)
           => pair.out = Result(PairStatus, PairCategory)

\* C8, a reachable case: false(valid-memtrack) of a valid-memsafety validator run against a
\* CORRECT false(valid-deref) came back as CORRECT_UNCONFIRMED.
C8_Witness ==
    /\ Returned /\ QualifierMismatch
    /\ pair.cand.properties = <<"valid-memsafety">>
    /\ PairCategory = <<"correct">>
    /\ pair.out = Result(PairStatus, <<"correct", "-unconfirmed">>)

----------------------------------------------------------------------------
(* C11 *)

\* hundredths of a score that a text of branches_covered stands for; a text that is
\* no number stands for none
CoveredBy(text) ==
    IF text = <<"25", "%">> THEN 25
    ELSE IF text = <<"50">> THEN 50
    ELSE IF text = <<"100", "%">> THEN 100
    ELSE 0

\* the values over which the maximum is taken: 0, and the value of every validator
\* that has a run for the task with a column branches_covered
CoveredValues ==
    {0} \cup {CoveredBy(RunIn(validators, i).columns["branches_covered"]) :
                 i \in {j \in WithRun(validators) :
                           "branches_covered" \in DOMAIN RunIn(validators, j).columns}}

ScoreText(h) ==
    IF h = 0 THEN <<"0">>
    ELSE IF h = 25 THEN <<"0", ".", "25">>
    ELSE IF h = 50 THEN <<"0", ".", "5">>
    ELSE <<"1">>

\* the status of the verifier as the batch reads it
StatusRead ==
    IF "status" \in DOMAIN RunBefore.columns THEN RunBefore.columns["status"]
    ELSE <<"not found">>

----------------------------------------------------------------------------
(* C12 *)

\* the place of a status in the search order invalid, version mismatch, type
\* mismatch, missing, result invalid
KindRank(status) ==
    IF status[1] = "witness invalid" THEN 1
    ELSE IF status[1] = "witness-version mismatch" THEN 2
    ELSE IF status[1] = "witness-type mismatch" THEN 3
    ELSE IF status[1] = "witness missing" THEN 4
    ELSE IF status[1] = "result invalid" THEN 5
    ELSE 6

BothPoolsError ==
    /\ Adjusted
    /\ Len(calls) = 2
    /\ calls[1].result.category_wit = <<"error">>
    /\ calls[2].result.category_wit = <<"error">>

\* C12: when the GraphML pool and the YAML pool both yield category ERROR,
\* get_validation_results_for_run returns, with category ERROR, the status of the two
\* whose kind comes first in the search order invalid, version mismatch, type
\* mismatch, missing, result invalid.
C12_FirstKindOfBothPools ==
    BothPoolsError =>
        /\ for_run.category_wit = <<"error">>
        /\ \E c \in {1, 2} :
              /\ for_run.status_wit = calls[c].result.status_wit
              /\ KindRank(calls[c].result.status_wit) <= 5
              /\ \A d \in {1, 2} : KindRank(calls[c].result.status_wit)
                                       <= KindRank(calls[d].result.status_wit)

\* C12, a reachable case: the GraphML pool reports a version mismatch, the YAML pool
\* a missing witness, and the version mismatch is returned.
C12_Witness ==
    /\ BothPoolsError
    /\ KindRank(calls[1].result.status_wit) = 2
    /\ KindRank(calls[2].result.status_wit) = 4
    /\ for_run.status_wit = calls[1].result.status_wit
    /\ for_run.category_wit = <<"error">>

----------------------------------------------------------------------------
(* C13 *)

\* the result of one validator against the verifier run
ValidatorResult(i) == get_validator_linter_result(RunIn(validators, i), RunBefore)

\* the linters of a call do not reject the witness, so the validators are scanned
LintersPass(call) ==
    \/ WithRun(call.linters) = {}
    \/ \E i \in WithRun(call.linters) : LinterResult(call, i).category # <<"error">>

\* the validators with a run whose result is no ERROR, and those whose result is CORRECT
NotError == {i \in WithRun(validators) : ValidatorResult(i).category # <<"error">>}
Correct == {i \in WithRun(validators) : ValidatorResult(i).category = <<"correct">>}

First(S) == CHOOSE i \in S : \A j \in S : i <= j
Last(S) == CHOOSE i \in S : \A j \in S : j <= i

\* the result of a scan in which the first result that is no ERROR is accepted and
\* replaced only by a later CORRECT one
FirstNotErrorUnlessCorrect ==
    IF Correct # {} THEN ValidatorResult(Last(Correct)) ELSE ValidatorResult(First(NotError))

\* C13, as stated: in the scan over the validators in list order the first validator
\* result whose category is not ERROR is accepted and afterwards replaced only by a
\* later result of category CORRECT.
C13_FirstNotErrorIsKept ==
    (Adjusted /\ ~IsCoverageRun) =>
        \A c \in 1..Len(calls) :
            (LintersPass(calls[c]) /\ NotError # {})
                => ReturnedOf(calls[c]) = FirstNotErrorUnlessCorrect

\* C13, for a verifier result of category CORRECT: in the scan over the validators in
\* list order the first validator result whose category is not ERROR is accepted and
\* afterwards replaced only by a later result of category CORRECT; a later CORRECT
\* result replaces an earlier one that is not CORRECT, and a CORRECT result is never
\* replaced by one that is not CORRECT.  For a verifier result of another category
\* every validator result replaces the accepted one: the last validator with a run
\* decides.
C13_FirstNotErrorIsKeptForCorrect ==
    (Adjusted /\ ~IsCoverageRun) =>
        \A c \in 1..Len(calls) :
            /\ ( /\ CategoryOf(RunBefore) = <<"correct">>
                 /\ LintersPass(calls[c]) /\ NotError # {} )
               => ReturnedOf(calls[c]) = FirstNotErrorUnlessCorrect
            /\ ( /\ CategoryOf(RunBefore) # <<"correct">>
                 /\ LintersPass(calls[c]) /\ WithRun(validators) # {} )
               => ReturnedOf(calls[c]) = ValidatorResult(Last(WithRun(validators)))

\* C13, a reachable case: against a CORRECT verifier result the first validator
\* confirms and the second timed out; the confirmation is returned.
C13_Witness ==
    /\ Adjusted /\ ~IsCoverageRun
    /\ CategoryOf(RunBefore) = <<"correct">>
    /\ WithRun(validators) = {1, 2}
    /\ Correct = {1}
    /\ NotError = {1, 2}
    /\ Len(calls) = 1
    /\ calls[1].result.category_wit = <<"correct">>

----------------------------------------------------------------------------
(* mkAnaDatabaseWitnesses.py: the classification of one witness by the votes *)
(* of the validators                                                         *)

MaxColumns == 3

WITNESS_CATEGORY_CORRECT == <<"correct">>
WITNESS_CATEGORY_WRONG == <<"wrong">>
WITNESS_CATEGORY_UNKNOWN == <<"unknown">>
RESULT_TRUE_PROP == <<"true">>
RESULT_FALSE_PROP == <<"false">>
WITNESSLINT_CORRECTNESS_TYPES == {<<"CORRECTNESS">>, <<"correctness_witness">>}
WITNESSLINT_VIOLATION_TYPES == {<<"VIOLATION">>, <<"violation_witness">>}

\* a cell that pandas read as a float, not a string
NaN == <<"\\nan">>

\* str.lower, on the tokens that expected verdicts are made of
LowerToken(tok) == IF tok = "True" THEN "true" ELSE IF tok = "False" THEN "false" ELSE tok
lower(s) == [i \in DOMAIN s |-> LowerToken(s[i])]

\* str(n) of a natural number: its decimal digits
Digit(d) == <<"0", "1", "2", "3", "4", "5", "6", "7", "8", "9">>[d + 1]
RECURSIVE str(_)
str(n) == IF n < 10 THEN <<Digit(n)>> ELSE str(n \div 10) \o <<Digit(n % 10)>>

\* the dict that _classify_task returns, and the exception it raises
Classified(category, voting) == [raised |-> None, category |-> category, voting |-> voting]
Raised(exception) == [raised |-> <<exception>>, category |-> None, voting |-> None]

\* "-:-"
NoVoting == <<"-", ":", "-">>

\* faulty variant: the vote is decided by simple majority
VoteCategory_Majority(confirmed, rejected) == IF confirmed + rejected < 2 THEN WITNESS_CATEGORY_UNKNOWN ELSE IF confirmed > rejected THEN WITNESS_CATEGORY_CORRECT ELSE IF rejected > confirmed THEN WITNESS_CATEGORY_WRONG ELSE WITNESS_CATEGORY_UNKNOWN

\* the category that the counted votes give
VoteCategory(confirmed, rejected) ==
    IF confirmed + rejected >= 2 /\ confirmed >= 3 * rejected THEN WITNESS_CATEGORY_CORRECT
    ELSE IF confirmed + rejected >= 2 /\ rejected >= 3 * confirmed
         THEN WITNESS_CATEGORY_WRONG
         ELSE WITNESS_CATEGORY_UNKNOWN

\* the vote over the validator columns of the witness kind
Vote(row, columns, expected_verdict) ==
    LET opposite_verdict ==
            IF expected_verdict = RESULT_TRUE_PROP THEN RESULT_FALSE_PROP
            ELSE RESULT_TRUE_PROP
        confirmed == Cardinality({c \in DOMAIN columns :
                                     startswith(row.cells[columns[c]], expected_verdict)})
        rejected == Cardinality({c \in DOMAIN columns :
                                    startswith(row.cells[columns[c]], opposite_verdict)})
    IN  IF \E c \in DOMAIN columns : row.cells[columns[c]] = NaN
        THEN Raised("AssertionError")
        ELSE Classified(VoteCategory(confirmed, rejected),
                        str(confirmed) \o <<":">> \o str(rejected))

\* a row of the verifier "witnessmap": its own expected verdict decides
ClassifyWitnessmap(row, expected_verdict) ==
    IF row.witnessExpected \in {<<>>, <<"-">>}
    THEN Classified(WITNESS_CATEGORY_UNKNOWN, NoVoting)
    ELSE IF lower(row.witnessExpected) # lower(expected_verdict)
         THEN Classified(WITNESS_CATEGORY_WRONG, NoVoting)
         ELSE Classified(WITNESS_CATEGORY_CORRECT, NoVoting)

\* faulty variant: a witness of the right type that cannot confirm the expected
\* verdict is classified UNKNOWN
ClassifyByWitnessType_Unknown(row, columns, validator_expected_witness, witness_type, expected_verdict) == IF witness_type \in WITNESSLINT_CORRECTNESS_TYPES /\ validator_expected_witness = "correctness" /\ ~startswith(expected_verdict, RESULT_FALSE_PROP) THEN Vote(row, columns, expected_verdict) ELSE IF witness_type \in WITNESSLINT_VIOLATION_TYPES /\ validator_expected_witness = "violation" /\ ~startswith(expected_verdict, RESULT_TRUE_PROP) THEN Vote(row, columns, expected_verdict) ELSE Classified(WITNESS_CATEGORY_UNKNOWN, NoVoting)

\* the checks of the witness type that the linter observed, then the vote
ClassifyByWitnessType(row, columns, validator_expected_witness, witness_type, expected_verdict) ==
    IF witness_type \in WITNESSLINT_CORRECTNESS_TYPES
    THEN IF validator_expected_witness = "violation"
         THEN Classified(WITNESS_CATEGORY_UNKNOWN, NoVoting)
         ELSE IF startswith(expected_verdict, RESULT_FALSE_PROP)
              THEN Classified(WITNESS_CATEGORY_WRONG, NoVoting)
              ELSE Vote(row, columns, expected_verdict)
    ELSE IF witness_type \in WITNESSLINT_VIOLATION_TYPES
         THEN IF validator_expected_witness = "correctness"
              THEN Classified(WITNESS_CATEGORY_UNKNOWN, NoVoting)
              ELSE IF startswith(expected_verdict, RESULT_TRUE_PROP)
                   THEN Classified(WITNESS_CATEGORY_WRONG, NoVoting)
                   ELSE Vote(row, columns, expected_verdict)
         ELSE Classified(WITNESS_CATEGORY_UNKNOWN, NoVoting)

\* witness_kind is "<correctness or violation>-<version>"
_classify_task(row, columns, witness_kind) ==
    IF row.verifier = "witnessmap"
    THEN ClassifyWitnessmap(row, lower(row.expected))
    ELSE IF row.witnessExpected \notin {<<>>, <<"-">>}
         THEN Raised("ValueError")
         ELSE ClassifyByWitnessType(row, columns, witness_kind[1],
                                    row.witnessType[witness_kind[3]], lower(row.expected))

(* Inputs: one row of the data frame and the validator columns of one witness kind *)

WitnessKinds ==
    {<<"correctness", "-", "1.0">>, <<"correctness", "-", "2.0">>,
     <<"violation", "-", "1.0">>, <<"violation", "-", "2.0">>}

\* the validator columns of one witness kind
ColumnTitles == <<"cpachecker", "uautomizer", "symbiotic", "mopsa">>
ColumnLists == {SubSeq(ColumnTitles, 1, n) : n \in 0..MaxColumns}

\* the expected verdict of a task, read by pandas as a string or as a bool
RowExpected ==
    {<<"true">>, <<"false">>, <<"False">>, <<"false", "(", "valid-deref", ")">>}

RowCells == {<<"true">>, <<"false">>, <<"false", "(", "valid-deref", ")">>, <<"TIMEOUT">>, NaN}

\* the witness type that the linter of each format version observed
RowWitnessTypes ==
    {[v \in {"1.0", "2.0"} |-> IF v = "1.0" THEN t1 ELSE t2] :
        t1 \in {<<"CORRECTNESS">>, <<"VIOLATION">>, <<"-">>},
        t2 \in {<<"correctness_witness">>, <<"violation_witness">>, <<"-">>}}

Rows(columns) ==
    [verifier : {"witnessmap", "cpachecker"},
     expected : RowExpected,
     witnessExpected : {<<>>, <<"-">>, <<"true">>, <<"false">>},
     witnessType : RowWitnessTypes,
     cells : [{columns[c] : c \in DOMAIN columns} -> RowCells]]

InitDatabase ==
    /\ results_file = RunSet(PlainRunSetName, NoRuns)
    /\ verifier_runs = results_file
    /\ validators = <<>>
    /\ linters = <<>>
    /\ invalid_tasks = {}
    /\ calls = <<>>
    /\ for_run = NotQueried
    /\ pair = Idle
    /\ scores = None
    /\ pc = "valid_tasks"
    /\ \E columns \in ColumnLists, k \in WitnessKinds :
          \E row \in Rows(columns) :
              database = [row |-> row, columns |-> columns, witness_kind |-> k,
                          out |-> Classified(None, None)]

\* valid_tasks, for one row and one witness kind: df[k] and df["voting-" + k]
ValidTasks ==
    /\ pc = "valid_tasks"
    /\ database' = [database EXCEPT
                       !.out = _classify_task(database.row, database.columns,
                                              database.witness_kind)]
    /\ pc' = "classified"
    /\ UNCHANGED <<results_file, verifier_runs, validators, linters, invalid_tasks, calls,
                   for_run, pair, scores>>

NextDatabase == ValidTasks

SpecDatabase == InitDatabase /\ [][NextDatabase]_vars

----------------------------------------------------------------------------
(* Vocabulary of the classification properties *)

TaskClassified == pc = "classified"

\* the expected verdict of the row, in lower case
ExpectedVerdict ==
    IF database.row.expected = <<"False">> THEN <<"false">> ELSE database.row.expected
ExpectedIsTrue == ExpectedVerdict[1] = "true"
ExpectedIsFalse == ExpectedVerdict[1] = "false"
OppositeVerdict == IF ExpectedIsTrue THEN <<"false">> ELSE <<"true">>

KindUnderTest == database.witness_kind[1]
ObservedType == database.row.witnessType[database.witness_kind[3]]
ObservedCorrectness == ObservedType \in {<<"CORRECTNESS">>, <<"correctness_witness">>}
ObservedViolation == ObservedType \in {<<"VIOLATION">>, <<"violation_witness">>}

\* a row of a verifier other than witnessmap that _classify_task accepts
PlainRow ==
    /\ database.row.verifier # "witnessmap"
    /\ database.row.witnessExpected \in {<<>>, <<"-">>}

\* the observed witness type is not the one of the kind under test
TypeDisagrees ==
    \/ ObservedCorrectness /\ KindUnderTest = "violation"
    \/ ObservedViolation /\ KindUnderTest = "correctness"
    \/ ~ObservedCorrectness /\ ~ObservedViolation

\* the witness type is the one under test, but cannot confirm the expected verdict
CannotConfirm ==
    \/ ObservedCorrectness /\ KindUnderTest = "correctness" /\ ExpectedIsFalse
    \/ ObservedViolation /\ KindUnderTest = "violation" /\ ExpectedIsTrue

CellOf(c) == database.row.cells[database.columns[c]]
AllStrings == \A c \in DOMAIN database.columns : CellOf(c) # <<"\\nan">>

ReachesVote == PlainRow /\ ~TypeDisagrees /\ ~CannotConfirm /\ AllStrings

RECURSIVE CountStarting(_, _)
CountStarting(verdict, n) ==
    IF n = 0 THEN 0
    ELSE CountStarting(verdict, n - 1) + (IF Prefix(verdict, CellOf(n)) THEN 1 ELSE 0)

ConfirmedVotes == CountStarting(ExpectedVerdict, Len(database.columns))
RejectedVotes == CountStarting(OppositeVerdict, Len(database.columns))

Numeral(n) == IF n = 0 THEN "0" ELSE IF n = 1 THEN "1" ELSE IF n = 2 THEN "2" ELSE IF n = 3 THEN "3" ELSE IF n = 4 THEN "4" ELSE "5"

----------------------------------------------------------------------------
(* C14 *)

----------------------------------------------------------------------------
(* C15 *)

\* C15, as stated: for every row of a verifier other than witnessmap the witness is
\* classified UNKNOWN without voting whenever the observed witness type disagrees with
\* the kind under test, and also whenever the expected verdict is one that the witness
\* type cannot confirm.
C15_UnknownWithoutVoting ==
    (TaskClassified /\ PlainRow /\ (TypeDisagrees \/ CannotConfirm)) =>
        /\ database.out.category = <<"unknown">>
        /\ database.out.voting = <<"-", ":", "-">>

\* C15, amended: for every row of a verifier other than witnessmap whose
\* witnessExpected cell is empty or "-", the witness is classified UNKNOWN without
\* voting whenever the observed witness type is not the type of the kind under test
\* (the other type, or neither), and WRONG without voting when the type is the one
\* under test but the expected verdict is one it cannot confirm (a correctness witness
\* on a false-expected task, a violation witness on a true-expected task).
C15_UnknownOrWrongWithoutVoting ==
    (TaskClassified /\ PlainRow) =>
        /\ TypeDisagrees =>
              /\ database.out.category = <<"unknown">>
              /\ database.out.voting = <<"-", ":", "-">>
        /\ CannotConfirm =>
              /\ database.out.category = <<"wrong">>
              /\ database.out.voting = <<"-", ":", "-">>

\* C15, a reachable case: a correctness witness of format 2.0 on a task that expects
\* false(valid-deref) is classified WRONG, whatever the validators say.
C15_Witness ==
    /\ TaskClassified /\ PlainRow /\ CannotConfirm
    /\ database.witness_kind = <<"correctness", "-", "2.0">>
    /\ database.row.expected = <<"false", "(", "valid-deref", ")">>
    /\ Len(database.columns) = 2
    /\ CellOf(1) = <<"true">> /\ CellOf(2) = <<"true">>
    /\ database.out.category = <<"wrong">>
    /\ database.out.voting = <<"-", ":", "-">>

----------------------------------------------------------------------------
(* mkAnaScores.py: the score data of one run set *)

MaxResults == 2

SV_COMP == "SV-COMP"
TEST_COMP == "Test-Comp"
TERMINATION_DEVICE_DRIVERS == "termination.SoftwareSystems-DeviceDriversLinux64-Termination"

\* a score: a Decimal, or None
Decimal(n) == [is_none |-> FALSE, value |-> n]
NoneScore == [is_none |-> TRUE, value |-> 0]

\* utils.is_tool_status_false
is_tool_status_false(status) == startswith(status, <<"false">>)

\* the explicitly given score if the run has a score column, else the score that the
\* table generator computed; None is 0 outside SV-COMP
get_score(run_result, competition) ==
    LET score == IF run_result.has_score_column THEN run_result.listed
                 ELSE run_result.score
    IN  IF score = NoneScore
        THEN (IF competition = SV_COMP THEN NoneScore ELSE Decimal(0))
        ELSE score

RECURSIVE SeqSum(_)
SeqSum(s) == IF s = <<>> THEN 0 ELSE s[1] + SeqSum(Tail(s))

\* the runs of the loop that are not skipped for a missing score
ScoredResults(results, competition) ==
    LET Scored(r) == get_score(r, competition) # NoneScore IN SelectSeq(results, Scored)

CountOf(results, category, is_false) ==
    SeqSum([i \in DOMAIN results |->
               IF results[i].category = category
                  /\ is_tool_status_false(results[i].status) = is_false
               THEN 1 ELSE 0])

\* the dict that the loop of _get_scores_data builds
ScoresData(results, category, competition) ==
    [score |-> SeqSum([i \in DOMAIN results |-> get_score(results[i], competition).value]),
     score_false |->
         SeqSum([i \in DOMAIN results |->
                    IF is_tool_status_false(results[i].status)
                       /\ category # TERMINATION_DEVICE_DRIVERS
                    THEN get_score(results[i], competition).value ELSE 0]),
     correct_true |-> CountOf(results, CATEGORY_CORRECT, FALSE),
     correct_false |-> CountOf(results, CATEGORY_CORRECT, TRUE),
     correct_unconfirmed_true |-> CountOf(results, CATEGORY_CORRECT_UNCONFIRMED, FALSE),
     correct_unconfirmed_false |-> CountOf(results, CATEGORY_CORRECT_UNCONFIRMED, TRUE),
     incorrect_true |-> CountOf(results, CATEGORY_WRONG, FALSE),
     incorrect_false |-> CountOf(results, CATEGORY_WRONG, TRUE)]

\* faulty variant: the scoring schema is not asserted
ScoresAsserted_Never(data, category, competition) == TRUE

\* the two assertions on the scoring schema
ScoresAsserted(data, category, competition) ==
    /\ \/ competition # SV_COMP
       \/ data.score = data.correct_false * 1 + data.correct_true * 2
                       + data.correct_unconfirmed_true * 0
                       + data.correct_unconfirmed_false * 0
                       + data.incorrect_false * (-16) + data.incorrect_true * (-32)
    /\ \/ category = TERMINATION_DEVICE_DRIVERS
       \/ competition # SV_COMP
       \/ data.score_false = data.correct_false * 1 + data.correct_unconfirmed_false * 0
                             + data.incorrect_false * (-16)

ScoresDataAsserted(data, category, competition) ==
    IF ScoresAsserted(data, category, competition)
    THEN [raised |-> None, data |-> data]
    ELSE [raised |-> <<"AssertionError">>, data |-> None]

_get_scores_data(run_set_result, category, competition) ==
    ScoresDataAsserted(ScoresData(ScoredResults(run_set_result, competition),
                                  category, competition),
                       category, competition)

(* Inputs: the runs of one run set *)

\* a run with the score of the table generator, or with a score column
ScoreSources ==
    {[score |-> v, has_score_column |-> FALSE, listed |-> NoneScore] :
        v \in {NoneScore, Decimal(0), Decimal(1), Decimal(2), Decimal(-16), Decimal(-32)}}
    \cup
    {[score |-> Decimal(2), has_score_column |-> TRUE, listed |-> v] :
        v \in {NoneScore, Decimal(1)}}

RunResults ==
    {[status |-> st, category |-> c, score |-> src.score,
      has_score_column |-> src.has_score_column, listed |-> src.listed] :
        st \in {<<"true">>, <<"false", "(", "unreach-call", ")">>},
        c \in {CATEGORY_CORRECT, CATEGORY_CORRECT_UNCONFIRMED, CATEGORY_WRONG,
               CATEGORY_UNKNOWN},
        src \in ScoreSources}

ScoreCategories == {"ReachSafety-Loops", TERMINATION_DEVICE_DRIVERS}

InitScores ==
    /\ results_file = RunSet(PlainRunSetName, NoRuns)
    /\ verifier_runs = results_file
    /\ validators = <<>>
    /\ linters = <<>>
    /\ invalid_tasks = {}
    /\ calls = <<>>
    /\ for_run = NotQueried
    /\ pair = Idle
    /\ database = None
    /\ pc = "scores"
    /\ \E run_set_result \in ListsUpTo(RunResults, MaxResults),
          category \in ScoreCategories, competition \in {SV_COMP, TEST_COMP} :
          scores = [run_set_result |-> run_set_result, category |-> category,
                    competition |-> competition, out |-> None]

GetScoresData ==
    /\ pc = "scores"
    /\ scores' = [scores EXCEPT
                     !.out = _get_scores_data(scores.run_set_result, scores.category,
                                              scores.competition)]
    /\ pc' = "scored"
    /\ UNCHANGED <<results_file, verifier_runs, validators, linters, invalid_tasks, calls,
                   for_run, pair, database>>

NextScores == GetScoresData

SpecScores == InitScores /\ [][NextScores]_vars

----------------------------------------------------------------------------
(* Vocabulary of the score properties *)

ScoresAggregated == pc = "scored"

ResultAt(n) == scores.run_set_result[n]

\* the score that counts for a run, and whether the run has one
ScoreAt(n) == IF ResultAt(n).has_score_column THEN ResultAt(n).listed ELSE ResultAt(n).score
HasScore(n) == ~ScoreAt(n).is_none
FalseAt(n) == ResultAt(n).status[1] = "false"

\* what a run with a score adds to each figure of the run set
Weight(what, n) ==
    IF what = "score" THEN ScoreAt(n).value
    ELSE IF what = "score_false" THEN (IF FalseAt(n) THEN ScoreAt(n).value ELSE 0)
    ELSE IF what = "correct_true"
         THEN (IF ResultAt(n).category = <<"correct">> /\ ~FalseAt(n) THEN 1 ELSE 0)
    ELSE IF what = "correct_false"
         THEN (IF ResultAt(n).category = <<"correct">> /\ FalseAt(n) THEN 1 ELSE 0)
    ELSE IF what = "incorrect_true"
         THEN (IF ResultAt(n).category = <<"wrong">> /\ ~FalseAt(n) THEN 1 ELSE 0)
    ELSE (IF ResultAt(n).category = <<"wrong">> /\ FalseAt(n) THEN 1 ELSE 0)

RECURSIVE Tally(_, _)
Tally(what, n) ==
    IF n = 0 THEN 0
    ELSE Tally(what, n - 1) + (IF HasScore(n) THEN Weight(what, n) ELSE 0)

Figure(what) == Tally(what, Len(scores.run_set_result))

SchemaScore ==
    Figure("correct_false") + 2 * Figure("correct_true")
    - 16 * Figure("incorrect_false") - 32 * Figure("incorrect_true")
SchemaScoreFalse == Figure("correct_false") - 16 * Figure("incorrect_false")

ExemptCategory ==
    scores.category = "termination.SoftwareSystems-DeviceDriversLinux64-Termination"

ScoresReturned == scores.out.raised = <<"\\None">>

----------------------------------------------------------------------------
(* C16 *)

\* C16: for every SV-COMP run set that _get_scores_data aggregates, the returned score
\* equals correct_false * 1 + correct_true * 2 - 16 * incorrect_false
\* - 32 * incorrect_true and, except for the exempt termination category, score_false
\* equals correct_false * 1 - 16 * incorrect_false; when the scores of the runs do not
\* add up to these values, the aggregation fails with an AssertionError and returns
\* nothing.
C16_ScoringSchemaAsserted ==
    (ScoresAggregated /\ scores.competition = "SV-COMP") =>
        IF /\ Figure("score") = SchemaScore
           /\ ExemptCategory \/ Figure("score_false") = SchemaScoreFalse
        THEN /\ ScoresReturned
             /\ scores.out.data.score = SchemaScore
             /\ scores.out.data.correct_false = Figure("correct_false")
             /\ scores.out.data.correct_true = Figure("correct_true")
             /\ scores.out.data.incorrect_false = Figure("incorrect_false")
             /\ scores.out.data.incorrect_true = Figure("incorrect_true")
             /\ ~ExemptCategory => scores.out.data.score_false = SchemaScoreFalse
        ELSE scores.out.raised = <<"AssertionError">>

\* C16, a reachable case: a correct true result with score 2 and a wrong false result
\* with score -16 give the score -14 and the false score -16.
C16_Witness ==
    /\ ScoresAggregated /\ scores.competition = "SV-COMP" /\ ~ExemptCategory
    /\ Len(scores.run_set_result) = 2
    /\ ResultAt(1).category = <<"correct">> /\ ~FalseAt(1) /\ ScoreAt(1).value = 2
    /\ HasScore(1)
    /\ ResultAt(2).category = <<"wrong">> /\ FalseAt(2) /\ ScoreAt(2).value = -16
    /\ HasScore(2)
    /\ ScoresReturned
    /\ scores.out.data.score = -14
    /\ scores.out.data.score_false = -16

----------------------------------------------------------------------------
(* utils.py: CategoryData and CategoryResult *)

\* CategoryData.__init__
CategoryData(data_total, data_success, data_success_false, data_unconfirmed, data_unconfirmed_false, sequence) ==
    [total |-> data_total,
     success |-> data_success,
     success_false |-> data_success_false,
     success_true |-> data_success - data_success_false,
     unconfirmed |-> data_unconfirmed,
     unconfirmed_false |-> data_unconfirmed_false,
     unconfirmed_true |-> data_unconfirmed - data_unconfirmed_false,
     sequence |-> sequence]

\* faulty variant: the successes on false tasks take the successes of the other operand
CategoryData__add___Mixed(self, category_data) == CategoryData(self.total + category_data.total, self.success + category_data.success, self.success_false + category_data.success, self.unconfirmed + category_data.unconfirmed, self.unconfirmed_false + category_data.unconfirmed_false, self.sequence \o category_data.sequence)

\* CategoryData.__add__
CategoryData__add__(self, category_data) ==
    CategoryData(self.total + category_data.total,
                 self.success + category_data.success,
                 self.success_false + category_data.success_false,
                 self.unconfirmed + category_data.unconfirmed,
                 self.unconfirmed_false + category_data.unconfirmed_false,
                 self.sequence \o category_data.sequence)

\* CategoryResult.__init__
CategoryResult(score, score_false, cputime, cpuenergy, correct_false, correct_true, correct_unconfirmed_false, correct_unconfirmed_true, incorrect_false, incorrect_true, qplot_cputime, qplot_cpuenergy, results_file_) ==
    [score |-> score,
     score_false |-> score_false,
     cputime |-> cputime,
     cpuenergy |-> cpuenergy,
     correct_false |-> correct_false,
     correct_true |-> correct_true,
     correct_unconfirmed_false |-> correct_unconfirmed_false,
     correct_unconfirmed_true |-> correct_unconfirmed_true,
     incorrect_false |-> incorrect_false,
     incorrect_true |-> incorrect_true,
     qplot_cputime |-> qplot_cputime,
     qplot_cpuenergy |-> qplot_cpuenergy,
     results_file |-> results_file_]

\* CategoryResult.__add__
CategoryResult__add__(self, category_result) ==
    CategoryResult(self.score + category_result.score,
                   self.score_false + category_result.score_false,
                   CategoryData__add__(self.cputime, category_result.cputime),
                   CategoryData__add__(self.cpuenergy, category_result.cpuenergy),
                   self.correct_false + category_result.correct_false,
                   self.correct_true + category_result.correct_true,
                   self.correct_unconfirmed_false
                       + category_result.correct_unconfirmed_false,
                   self.correct_unconfirmed_true + category_result.correct_unconfirmed_true,
                   self.incorrect_false + category_result.incorrect_false,
                   self.incorrect_true + category_result.incorrect_true,
                   self.qplot_cputime \o category_result.qplot_cputime,
                   self.qplot_cpuenergy \o category_result.qplot_cpuenergy,
                   self.results_file \o category_result.results_file)

\* utils.accumulate_data: the sums of the measurements, without the sequences
accumulate_data(data) ==
    CategoryData(SeqSum([i \in DOMAIN data |-> data[i].total]),
                 SeqSum([i \in DOMAIN data |-> data[i].success]),
                 SeqSum([i \in DOMAIN data |-> data[i].success_false]),
                 SeqSum([i \in DOMAIN data |-> data[i].unconfirmed]),
                 SeqSum([i \in DOMAIN data |-> data[i].unconfirmed_false]),
                 None)

(* Inputs: the category results of one validator for three verifiers *)

\* the measurements of a run set by category and status of its runs, as
\* _create_category_data sums them
Measured(results) ==
    LET Val(i, cat, only_false) ==
            IF results[i].category = cat
               /\ (~only_false \/ is_tool_status_false(results[i].status))
            THEN results[i].value ELSE 0
    IN  CategoryData(SeqSum([i \in DOMAIN results |-> results[i].value]),
                     SeqSum([i \in DOMAIN results |-> Val(i, CATEGORY_CORRECT, FALSE)]),
                     SeqSum([i \in DOMAIN results |-> Val(i, CATEGORY_CORRECT, TRUE)]),
                     SeqSum([i \in DOMAIN results |->
                                Val(i, CATEGORY_CORRECT_UNCONFIRMED, FALSE)]),
                     SeqSum([i \in DOMAIN results |->
                                Val(i, CATEGORY_CORRECT_UNCONFIRMED, TRUE)]),
                     [i \in DOMAIN results |-> results[i].value])

MeasuredRun(status, category, value) == [status |-> status, category |-> category, value |-> value]

CpuTimes ==
    {Measured(<<>>),
     Measured(<<MeasuredRun(<<"true">>, CATEGORY_CORRECT, 3)>>),
     Measured(<<MeasuredRun(<<"false", "(", "unreach-call", ")">>, CATEGORY_CORRECT, 5),
                MeasuredRun(<<"false", "(", "unreach-call", ")">>,
                            CATEGORY_CORRECT_UNCONFIRMED, 7)>>)}

CpuEnergies ==
    {Measured(<<MeasuredRun(<<"true">>, CATEGORY_CORRECT_UNCONFIRMED, 11)>>),
     Measured(<<MeasuredRun(<<"false", "(", "unreach-call", ")">>, CATEGORY_WRONG, 13)>>)}

\* one quantile-plot entry for each measurement
QPlot(sequence) == [i \in DOMAIN sequence |-> <<i, sequence[i]>>]

\* score, score_false, correct_false, correct_true, incorrect_false, incorrect_true
ScoreFigures == {<<0, 0, 0, 0, 0, 0>>, <<2, 0, 0, 1, 0, 0>>, <<-15, -15, 1, 0, 1, 0>>}

CategoryResults ==
    {CategoryResult(f[1], f[2], t, e, f[3], f[4], 0, 0, f[5], f[6],
                    QPlot(t.sequence), QPlot(e.sequence), file) :
        f \in ScoreFigures, t \in CpuTimes, e \in CpuEnergies,
        file \in {<<"cpachecker.xml">>, <<"uautomizer.xml">>}}

InitAdd ==
    /\ results_file = RunSet(PlainRunSetName, NoRuns)
    /\ verifier_runs = results_file
    /\ validators = <<>>
    /\ linters = <<>>
    /\ invalid_tasks = {}
    /\ calls = <<>>
    /\ for_run = NotQueried
    /\ pair = Idle
    /\ database = None
    /\ pc = "add"
    /\ \E a \in CategoryResults, b \in CategoryResults, c \in CategoryResults :
          scores = [a |-> a, b |-> b, c |-> c, out |-> None]

\* the sums of the three results in both orders and both groupings
Sums(a, b, c) ==
    [ab |-> CategoryResult__add__(a, b),
     ba |-> CategoryResult__add__(b, a),
     ab_c |-> CategoryResult__add__(CategoryResult__add__(a, b), c),
     a_bc |-> CategoryResult__add__(a, CategoryResult__add__(b, c)),
     acc_ab |-> accumulate_data(<<a.cputime, b.cputime>>),
     acc_ba |-> accumulate_data(<<b.cputime, a.cputime>>)]

AddCategoryResults ==
    /\ pc = "add"
    /\ scores' = [scores EXCEPT !.out = Sums(scores.a, scores.b, scores.c)]
    /\ pc' = "added"
    /\ UNCHANGED <<results_file, verifier_runs, validators, linters, invalid_tasks, calls,
                   for_run, pair, database>>

NextAdd == AddCategoryResults

SpecAdd == InitAdd /\ [][NextAdd]_vars

----------------------------------------------------------------------------
(* C17 *)

Added == pc = "added"

\* the figures of a measurement, without the sequence of its individual values
Totals(data) ==
    <<data.total, data.success, data.success_false, data.success_true, data.unconfirmed,
      data.unconfirmed_false, data.unconfirmed_true>>

\* the figures of a category result
Figures(r) ==
    <<r.score, r.score_false, Totals(r.cputime), Totals(r.cpuenergy), r.correct_false,
      r.correct_true, r.correct_unconfirmed_false, r.correct_unconfirmed_true,
      r.incorrect_false, r.incorrect_true>>

\* the fields that hold one entry for each run, and the name of the results file
Entries(r) ==
    <<r.cputime.sequence, r.cpuenergy.sequence, r.qplot_cputime, r.qplot_cpuenergy,
      r.results_file>>

\* C17, as stated: a + b equals b + a and (a + b) + c equals a + (b + c) in every field
\* of the result.
C17_AddCommutesInEveryField ==
    Added => /\ scores.out.ab = scores.out.ba
             /\ scores.out.ab_c = scores.out.a_bc

\* C17, amended: CategoryData.__add__ and CategoryResult.__add__ are associative in
\* every field, and commutative in every figure (score, score_false, the six counts,
\* and total, success, success_false, success_true, unconfirmed, unconfirmed_false,
\* unconfirmed_true of cputime and cpuenergy); the sequence of a measurement, the two
\* quantile-plot lists and results_file are concatenated in the order of the operands.
\* accumulate_data gives the same figures for either order.
C17_AddCommutesInFigures ==
    Added =>
        /\ scores.out.ab_c = scores.out.a_bc
        /\ Figures(scores.out.ab) = Figures(scores.out.ba)
        /\ Figures(scores.out.ab) =
              <<scores.a.score + scores.b.score,
                scores.a.score_false + scores.b.score_false,
                Totals(scores.out.acc_ab),
                Totals(accumulate_data(<<scores.b.cpuenergy, scores.a.cpuenergy>>)),
                scores.a.correct_false + scores.b.correct_false,
                scores.a.correct_true + scores.b.correct_true,
                scores.a.correct_unconfirmed_false + scores.b.correct_unconfirmed_false,
                scores.a.correct_unconfirmed_true + scores.b.correct_unconfirmed_true,
                scores.a.incorrect_false + scores.b.incorrect_false,
                scores.a.incorrect_true + scores.b.incorrect_true>>
        /\ \A i \in 1..5 : Entries(scores.out.ab)[i] = Entries(scores.a)[i] \o Entries(scores.b)[i]
        /\ \A i \in 1..5 : Entries(scores.out.ba)[i] = Entries(scores.b)[i] \o Entries(scores.a)[i]
        /\ scores.out.acc_ab = scores.out.acc_ba

\* C17, a reachable case: two results with different measurements and results files
\* are added: the figures agree in both orders, the sequences do not.
C17_Witness ==
    /\ Added
    /\ scores.a.cputime.sequence = <<3>>
    /\ scores.b.cputime.sequence = <<5, 7>>
    /\ scores.out.ab.cputime.sequence = <<3, 5, 7>>
    /\ scores.out.ba.cputime.sequence = <<5, 7, 3>>
    /\ scores.out.ab.cputime.total = 15
    /\ scores.out.ba.cputime.total = 15
    /\ scores.a.results_file # scores.b.results_file
    /\ scores.out.ab.results_file # scores.out.ba.results_file

----------------------------------------------------------------------------
(* mkAnaScores.py and mkAnaScoresValidators.py: handle_meta_category.        *)
(* Scores are exact fractions; the measurements and quantile plots of the    *)
(* results are left out, they take no part in scores or participants.        *)

MaxChildren == 2

Abs(n) == IF n < 0 THEN -n ELSE n

RECURSIVE GCD(_, _)
GCD(a, b) == IF b = 0 THEN a ELSE GCD(b, a % b)

\* the fraction n / d in lowest terms, for d # 0
Rational(n, d) ==
    LET g == GCD(Abs(n), Abs(d))
        sign == IF d < 0 THEN -1 ELSE 1
    IN  [num |-> (sign * n) \div g, den |-> (sign * d) \div g]

RatInt(n) == Rational(n, 1)
RatAdd(a, b) == Rational(a.num * b.den + b.num * a.den, a.den * b.den)
RatTimes(a, k) == Rational(a.num * k, a.den)
RatOver(a, k) == Rational(a.num, a.den * k)

RECURSIVE RatSum(_)
RatSum(s) == IF s = <<>> THEN RatInt(0) ELSE RatAdd(s[1], RatSum(Tail(s)))

\* the VerificationCategory or ValidationCategory that is returned, with the results
\* of the participants, and the exception of a division by zero
MetaCategory(tasks, counted_a, counted_b, possible_score, possible_score_false, results) ==
    [raised |-> None, tasks |-> tasks, counted_a |-> counted_a, counted_b |-> counted_b,
     possible_score |-> possible_score, possible_score_false |-> possible_score_false,
     results |-> results]
MetaRaised(exception) == [raised |-> <<exception>>]

\* the sums of the result counts of one participant over the sub-categories that
\* hold a result of it
CountSum(subs, participant, field) ==
    SeqSum([i \in DOMAIN subs |->
               IF participant \in DOMAIN subs[i].results
               THEN subs[i].results[participant][field] ELSE 0])

ResultCounts(subs, participant) ==
    [f \in {"correct_false", "correct_true", "correct_unconfirmed_false",
            "correct_unconfirmed_true", "incorrect_false", "incorrect_true"} |->
        CountSum(subs, participant, f)]

(* mkAnaScores.py, the verification track *)

\* faulty variant: every sub-category that is no demo category is included
VerificationIncluded_Empty(c, demo_categories) == c.name \notin demo_categories

\* the sub-categories that take part in the meta category
VerificationIncluded(c, demo_categories) ==
    c.name \notin demo_categories /\ c.tasks_true + c.tasks_false # 0

VerificationSubcategories(children, demo_categories) ==
    LET Included(c) == VerificationIncluded(c, demo_categories)
    IN  SelectSeq(children, Included)

\* faulty variant: the sum of the averages is not divided by the number of sub-categories
normalize_score_Undivided(score, category_amount, tasks_true, tasks_false) == RatTimes(score, tasks_true + tasks_false)

normalize_score(score, category_amount, tasks_true, tasks_false) ==
    RatTimes(RatOver(score, category_amount), tasks_true + tasks_false)

normalize_score_false(meta_category, score, category_amount, tasks_true, tasks_false) ==
    IF meta_category = "SoftwareSystems"
    THEN RatTimes(RatOver(score, category_amount - 1), tasks_true + tasks_false - 267)
    ELSE normalize_score(score, category_amount, tasks_true, tasks_false)

\* name in "SoftwareSystems", for the category names of the model
InSoftwareSystems(name) == name = "SoftwareSystems"

TasksInSubcategory(c) ==
    c.tasks_true + c.tasks_false - (IF InSoftwareSystems(c.name) THEN 267 ELSE 0)

\* the divisions of the normalization that divide by zero
NormalizationRaises(meta_category, category_amount) ==
    \/ category_amount = 0
    \/ meta_category = "SoftwareSystems" /\ category_amount - 1 = 0

\* faulty variant: a verifier is considered whatever sub-categories it has results in
VerifierConsidered_Always(available, category_amount) == TRUE

\* a verifier is not considered when it misses a sub-category
VerifierConsidered(available, category_amount) == ~(available < category_amount)

SubcategoriesAvailable(subs, verifier) ==
    LET Available(c) == verifier \in DOMAIN c.results IN SelectSeq(subs, Available)

VerifierResult(meta_category, subs, verifier, tasks_true, tasks_false) ==
    [score |->
         normalize_score(
             RatSum([i \in DOMAIN subs |->
                        IF verifier \in DOMAIN subs[i].results
                           /\ subs[i].tasks_true + subs[i].tasks_false # 0
                        THEN RatOver(RatInt(subs[i].results[verifier].score),
                                     subs[i].tasks_true + subs[i].tasks_false)
                        ELSE RatInt(0)]),
             Len(subs), tasks_true, tasks_false),
     score_false |->
         normalize_score_false(
             meta_category,
             RatSum([i \in DOMAIN subs |->
                        IF verifier \in DOMAIN subs[i].results
                           /\ TasksInSubcategory(subs[i]) # 0
                        THEN RatOver(RatInt(subs[i].results[verifier].score_false),
                                     TasksInSubcategory(subs[i]))
                        ELSE RatInt(0)]),
             Len(subs), tasks_true, tasks_false),
     counts |-> ResultCounts(subs, verifier)]

VerifierResults(meta_category, subs, subverifiers, tasks_true, tasks_false) ==
    LET considered ==
            {v \in subverifiers :
                VerifierConsidered(Len(SubcategoriesAvailable(subs, v)), Len(subs))}
    IN  [v \in considered |->
            VerifierResult(meta_category, subs, v, tasks_true, tasks_false)]

MetaOfSubcategories(meta_category, subs, subverifiers, tasks_true, tasks_false) ==
    IF NormalizationRaises(meta_category, Len(subs))
    THEN MetaRaised("ArithmeticError")
    ELSE MetaCategory(
             SeqSum([i \in DOMAIN subs |-> subs[i].tasks]),
             tasks_true, tasks_false,
             normalize_score(
                 RatSum([i \in DOMAIN subs |->
                            IF subs[i].tasks_true + subs[i].tasks_false # 0
                            THEN RatOver(RatInt(subs[i].possible_score),
                                         subs[i].tasks_true + subs[i].tasks_false)
                            ELSE RatInt(0)]),
                 Len(subs), tasks_true, tasks_false),
             normalize_score_false(
                 meta_category,
                 RatSum([i \in DOMAIN subs |->
                            IF TasksInSubcategory(subs[i]) # 0
                            THEN RatOver(RatInt(subs[i].possible_score_false),
                                         TasksInSubcategory(subs[i]))
                            ELSE RatInt(0)]),
                 Len(subs), tasks_true, tasks_false),
             VerifierResults(meta_category, subs, subverifiers, tasks_true, tasks_false))

MetaWithTasks(meta_category, subs, subverifiers) ==
    MetaOfSubcategories(
        meta_category, subs, subverifiers,
        SeqSum([i \in DOMAIN subs |-> subs[i].tasks_true])
            - (IF meta_category = "FalsificationOverall" THEN 91 ELSE 0),
        SeqSum([i \in DOMAIN subs |-> subs[i].tasks_false])
            - (IF meta_category = "FalsificationOverall" THEN 176 ELSE 0))

handle_meta_category(meta_category, children, demo_categories, subverifiers) ==
    MetaWithTasks(meta_category, VerificationSubcategories(children, demo_categories),
                  subverifiers)

(* mkAnaScoresValidators.py, the validation track *)

ValidationSubcategories(children, demo_categories) ==
    LET Included(c) ==
            c.name \notin demo_categories /\ c.witnesses_correct + c.witnesses_wrong > 0
    IN  SelectSeq(children, Included)

normalize_score_validators(score, category_amount, witnesses) ==
    IF category_amount = 0 THEN RatInt(0)
    ELSE RatTimes(RatOver(score, category_amount), witnesses)

MetaValidatorResult(subs, validator, witnesses) ==
    [score |->
         normalize_score_validators(
             RatSum([i \in DOMAIN subs |->
                        IF validator \in DOMAIN subs[i].results
                           /\ subs[i].results[validator].score # 0
                        THEN RatOver(RatInt(subs[i].results[validator].score),
                                     subs[i].witnesses_correct + subs[i].witnesses_wrong)
                        ELSE RatInt(0)]),
             Len(subs), witnesses),
     score_false |->
         normalize_score_validators(
             RatSum([i \in DOMAIN subs |->
                        IF validator \in DOMAIN subs[i].results
                           /\ subs[i].results[validator].score_false # 0
                        THEN RatOver(RatInt(subs[i].results[validator].score_false),
                                     subs[i].witnesses_correct + subs[i].witnesses_wrong)
                        ELSE RatInt(0)]),
             Len(subs), witnesses),
     counts |-> ResultCounts(subs, validator)]

ValidationMetaOfSubcategories(subs, subvalidators, witnesses_correct, witnesses_wrong) ==
    MetaCategory(
        SeqSum([i \in DOMAIN subs |-> subs[i].tasks]),
        witnesses_correct, witnesses_wrong,
        normalize_score_validators(
            RatSum([i \in DOMAIN subs |->
                       IF subs[i].possible_score # 0
                       THEN RatOver(RatInt(subs[i].possible_score),
                                    subs[i].witnesses_correct + subs[i].witnesses_wrong)
                       ELSE RatInt(0)]),
            Len(subs), witnesses_correct + witnesses_wrong),
        normalize_score_validators(
            RatSum([i \in DOMAIN subs |->
                       IF subs[i].possible_score_false # 0
                       THEN RatOver(RatInt(subs[i].possible_score_false),
                                    subs[i].witnesses_correct + subs[i].witnesses_wrong)
                       ELSE RatInt(0)]),
            Len(subs), witnesses_correct + witnesses_wrong),
        [v \in subvalidators |->
            MetaValidatorResult(subs, v, witnesses_correct + witnesses_wrong)])

ValidationMeta(subs, subvalidators) ==
    ValidationMetaOfSubcategories(
        subs, subvalidators,
        SeqSum([i \in DOMAIN subs |-> subs[i].witnesses_correct]),
        SeqSum([i \in DOMAIN subs |-> subs[i].witnesses_wrong]))

handle_meta_category_validators(children, demo_categories, subvalidators) ==
    ValidationMeta(ValidationSubcategories(children, demo_categories), subvalidators)

(* Inputs: the processed sub-categories of one meta category *)

Participants == {"cpachecker", "uautomizer"}

ParticipantResult(score, score_false, correct_false, correct_true, incorrect_false) ==
    [score |-> score, score_false |-> score_false, correct_false |-> correct_false,
     correct_true |-> correct_true, correct_unconfirmed_false |-> 0,
     correct_unconfirmed_true |-> 0, incorrect_false |-> incorrect_false,
     incorrect_true |-> 0]

\* the results that a sub-category holds: of no, one or both participants
ChildResults ==
    LET first == {ParticipantResult(2, 0, 0, 1, 0), ParticipantResult(-15, -15, 1, 0, 1)}
        second == {ParticipantResult(1, 1, 1, 0, 0)}
    IN  {<<>>} \cup
        {[v \in {"cpachecker"} |-> r] : r \in first} \cup
        {[v \in {"uautomizer"} |-> r] : r \in second} \cup
        {[v \in Participants |-> IF v = "cpachecker" THEN r ELSE q] :
            r \in first, q \in second}

\* true and false tasks of a sub-category: none, some, and as many as are taken off
\* the tasks of SoftwareSystems
TaskCounts == {<<0, 0>>, <<1, 1>>, <<200, 67>>}

ChildNames ==
    {<<"ReachSafety", "MemSafety", "NoOverflows">>,
     <<"SoftwareSystems", "ReachSafety", "MemSafety">>}

\* a sub-category without valid tasks holds no results
VerificationChildren(name) ==
    {[name |-> name, tasks |-> t[1] + t[2], tasks_true |-> t[1], tasks_false |-> t[2],
      possible_score |-> 2 * t[1] + t[2], possible_score_false |-> t[2],
      results |-> IF t = <<0, 0>> THEN <<>> ELSE r] :
        t \in TaskCounts, r \in ChildResults}

ValidationChildren(name) ==
    {[name |-> name, tasks |-> t[1] + t[2], witnesses_correct |-> t[1],
      witnesses_wrong |-> t[2], possible_score |-> 2 * t[1] + t[2],
      possible_score_false |-> t[2],
      results |-> IF t = <<0, 0>> THEN <<>> ELSE r] :
        t \in TaskCounts, r \in ChildResults}

MetaCategories == {"ReachSafety", "SoftwareSystems", "FalsificationOverall"}

InitMetaChildren(track) ==
    \E names \in ChildNames, n \in 0..MaxChildren :
        \E children \in [1..n -> UNION {IF track = "verification"
                                        THEN VerificationChildren(names[i])
                                        ELSE ValidationChildren(names[i]) : i \in 1..n}] :
            /\ \A i \in 1..n : children[i].name = names[i]
            /\ \E demo_categories \in SUBSET {names[1]},
                  meta_category \in (IF track = "verification" THEN MetaCategories
                                     ELSE {"ReachSafety"}) :
                  scores = [track |-> track, meta_category |-> meta_category,
                            children |-> children, demo_categories |-> demo_categories,
                            participants |-> Participants, out |-> MetaRaised("\\None")]

InitMeta ==
    /\ results_file = RunSet(PlainRunSetName, NoRuns)
    /\ verifier_runs = results_file
    /\ validators = <<>>
    /\ linters = <<>>
    /\ invalid_tasks = {}
    /\ calls = <<>>
    /\ for_run = NotQueried
    /\ pair = Idle
    /\ database = None
    /\ \/ pc = "meta" /\ InitMetaChildren("verification")
       \/ pc = "meta_validators" /\ InitMetaChildren("validation")

HandleMetaCategory ==
    /\ pc = "meta"
    /\ scores' = [scores EXCEPT
                     !.out = handle_meta_category(scores.meta_category, scores.children,
                                                  scores.demo_categories,
                                                  scores.participants)]
    /\ pc' = "handled"
    /\ UNCHANGED <<results_file, verifier_runs, validators, linters, invalid_tasks, calls,
                   for_run, pair, database>>

HandleMetaCategoryValidators ==
    /\ pc = "meta_validators"
    /\ scores' = [scores EXCEPT
                     !.out = handle_meta_category_validators(scores.children,
                                                             scores.demo_categories,
                                                             scores.participants)]
    /\ pc' = "handled"
    /\ UNCHANGED <<results_file, verifier_runs, validators, linters, invalid_tasks, calls,
                   for_run, pair, database>>

NextMeta == HandleMetaCategory \/ HandleMetaCategoryValidators

SpecMeta == InitMeta /\ [][NextMeta]_vars

----------------------------------------------------------------------------
(* Vocabulary of the meta-category properties *)

Handled == pc = "handled"
MetaReturned == Handled /\ scores.out.raised = <<"\\None">>
Verification == scores.track = "verification"
Validation == scores.track = "validation"

ChildAt(i) == scores.children[i]

\* the valid tasks of a child: true and false tasks, or correct and wrong witnesses
ValidTaskCount(i) ==
    IF Verification THEN ChildAt(i).tasks_true + ChildAt(i).tasks_false
    ELSE ChildAt(i).witnesses_correct + ChildAt(i).witnesses_wrong

\* the children that are no demo category and have at least one valid task
IncludedChildren ==
    {i \in DOMAIN scores.children :
        ChildAt(i).name \notin scores.demo_categories /\ ValidTaskCount(i) >= 1}

AllChildrenEmpty == \A i \in DOMAIN scores.children : ValidTaskCount(i) = 0

\* the sum of the valid tasks of the included children
RECURSIVE ValidTasksUpTo(_)
ValidTasksUpTo(n) ==
    IF n = 0 THEN 0
    ELSE ValidTasksUpTo(n - 1) + (IF n \in IncludedChildren THEN ValidTaskCount(n) ELSE 0)
MetaTasks == ValidTasksUpTo(Len(scores.children))

\* the tasks by which the verification track multiplies
MetaTasksAdjusted ==
    MetaTasks - (IF Verification /\ scores.meta_category = "FalsificationOverall"
                 THEN 91 + 176 ELSE 0)

\* the sum over the included children of possible_score / valid tasks
RECURSIVE AveragePossibleUpTo(_)
AveragePossibleUpTo(n) ==
    IF n = 0 THEN RatInt(0)
    ELSE RatAdd(AveragePossibleUpTo(n - 1),
                IF n \in IncludedChildren
                THEN Rational(ChildAt(n).possible_score, ValidTaskCount(n))
                ELSE RatInt(0))
AveragePossible == AveragePossibleUpTo(Len(scores.children))

\* the sum over the included children that hold a result of the participant of
\* score / valid tasks
RECURSIVE AverageScoreUpTo(_, _)
AverageScoreUpTo(p, n) ==
    IF n = 0 THEN RatInt(0)
    ELSE RatAdd(AverageScoreUpTo(p, n - 1),
                IF n \in IncludedChildren /\ p \in DOMAIN ChildAt(n).results
                THEN Rational(ChildAt(n).results[p].score, ValidTaskCount(n))
                ELSE RatInt(0))
AverageScore(p) == AverageScoreUpTo(p, Len(scores.children))

\* the participant lacks a result in an included child
LacksResult(p) == \E i \in IncludedChildren : p \notin DOMAIN ChildAt(i).results

Scaled(sum, amount, tasks) == Rational(sum.num * tasks, sum.den * amount)

----------------------------------------------------------------------------
(* C18 *)

\* C18, as stated: the possible score of a meta category is the sum, over the children
\* with a nonzero task count, of possible_score / task count, multiplied by the sum of
\* the children's true and false task counts.
C18_PossibleScoreIsSumTimesTasks ==
    MetaReturned => scores.out.possible_score = Scaled(AveragePossible, 1, MetaTasks)

\* C18, amended: the possible score of a meta category is the sum, over the included
\* children (no demo category, at least one valid task), of possible_score / valid
\* tasks of the child, divided by the number of included children and multiplied by
\* the valid tasks of the meta category: the sum of the included children's true and
\* false tasks, less 91 true and 176 false tasks for FalsificationOverall, in the
\* verification track; the sum of their correct and wrong witnesses in the validation
\* track, where the possible score is 0 when no child is included.  It does not depend
\* on the results of the participants.
C18_PossibleScoreIsAverageTimesTasks ==
    MetaReturned =>
        IF IncludedChildren = {}
        THEN Validation /\ scores.out.possible_score = RatInt(0)
        ELSE scores.out.possible_score =
                 Scaled(AveragePossible, Cardinality(IncludedChildren), MetaTasksAdjusted)

\* C18, a reachable case: two included children in the verification track with 2 and
\* 267 valid tasks; the possible score is (3/2 + 467/267) / 2 * 269.
C18_Witness ==
    /\ MetaReturned /\ Verification
    /\ scores.meta_category = "ReachSafety"
    /\ Cardinality(IncludedChildren) = 2
    /\ ValidTaskCount(1) = 2 /\ ValidTaskCount(2) = 267
    /\ scores.out.possible_score = Scaled(Rational(3 * 267 + 467 * 2, 2 * 267), 2, 269)
    /\ DOMAIN scores.out.results = {"cpachecker"}

----------------------------------------------------------------------------
(* C19 *)

\* C19, as stated: in both tracks a participant that lacks a result in an included
\* child has no entry in the results of the meta category.
C19_IncompleteParticipantIsDropped ==
    MetaReturned =>
        \A p \in scores.participants : LacksResult(p) => p \notin DOMAIN scores.out.results

\* C19, amended: in the verification track a participant has an entry in the results
\* of the meta category exactly if it has a result in every included child.  In the
\* validation track every validator of the meta category has an entry: its score sums
\* score / valid witnesses over the included children that hold a result of it,
\* divided by the number of all included children, so a missing child counts as zero.
C19_IncompleteVerifierIsDropped ==
    MetaReturned =>
        /\ Verification =>
              DOMAIN scores.out.results = {p \in scores.participants : ~LacksResult(p)}
        /\ Validation =>
              /\ DOMAIN scores.out.results = scores.participants
              /\ \A p \in scores.participants :
                    scores.out.results[p].score =
                        IF IncludedChildren = {} THEN RatInt(0)
                        ELSE Scaled(AverageScore(p), Cardinality(IncludedChildren),
                                    MetaTasks)

\* C19, a reachable case: in the verification track uautomizer lacks the result of one
\* of two included children and cpachecker has both: only cpachecker has an entry.
C19_Witness ==
    /\ MetaReturned /\ Verification
    /\ Cardinality(IncludedChildren) = 2
    /\ LacksResult("uautomizer") /\ ~LacksResult("cpachecker")
    /\ \E i \in IncludedChildren : "uautomizer" \in DOMAIN ChildAt(i).results
    /\ DOMAIN scores.out.results = {"cpachecker"}

----------------------------------------------------------------------------
(* C20 *)

\* C20, as stated: only children with at least one valid task are included, and when
\* every child is empty an error is raised.
C20_EmptyMetaCategoryRaises ==
    Handled =>
        /\ AllChildrenEmpty => scores.out.raised # <<"\\None">>
        /\ MetaReturned => scores.out.counted_a + scores.out.counted_b = MetaTasksAdjusted

\* C20, amended: only children with at least one valid task that are no demo category
\* are included.  When no child is included, the verification track raises an
\* arithmetic error (the normalization divides by the number of included children);
\* the validation track returns a category with possible score 0 in which every
\* validator has the score 0.
C20_EmptyVerificationMetaCategoryRaises ==
    Handled =>
        /\ (Verification /\ IncludedChildren = {}) =>
              scores.out.raised = <<"ArithmeticError">>
        /\ (Validation /\ IncludedChildren = {}) =>
              /\ MetaReturned
              /\ scores.out.possible_score = RatInt(0)
              /\ \A p \in scores.participants : scores.out.results[p].score = RatInt(0)
        /\ MetaReturned =>
              /\ Verification => IncludedChildren # {}
              /\ scores.out.counted_a + scores.out.counted_b = MetaTasksAdjusted

\* C20, a reachable case: both children of a meta category of the verification track
\* are empty, and the call raises.
C20_Witness ==
    /\ Handled /\ Verification
    /\ Len(scores.children) = 2
    /\ AllChildrenEmpty
    /\ scores.demo_categories = {}
    /\ scores.out.raised = <<"ArithmeticError">>

----------------------------------------------------------------------------
(* mkAnaScores.get_best and mkAnaScoresValidators.get_best: the medal ranking *)

\* The slice [0:3] and the padding to three positions.
Medals == 3

RatLess(a, b) == a.num * b.den < b.num * a.den

\* A participant's entry of category.results: the key of the dict as a list of tokens
\* and the figures of its CategoryResult that the ranking reads.
Ranked(name, score, score_false, success, success_false) ==
    [name |-> name, score |-> score, score_false |-> score_false,
     cputime |-> [success |-> success, success_false |-> success_false]]

hors_concours_labels == {"inactive", "meta_tool"}

\* utils.is_hors_concours: the participation labels of the tool meet the two labels.
is_hors_concours(fm_tools_catalog, tool) ==
    fm_tools_catalog[tool].labels \cap hors_concours_labels # {}

\* is_opt_out: opt_out maps a verifier to the categories it opted out of; a missing or
\* empty map holds no opt-out.
is_opt_out(category, verifier, category_info) ==
    IF DOMAIN category_info.opt_out = {}
    THEN FALSE
    ELSE verifier \in DOMAIN category_info.opt_out
         /\ category \in category_info.opt_out[verifier]

\* The key of the sort: (score, 1 / cputime of the successful runs, or 0).
BestKey(entry, is_falsification) ==
    IF is_falsification
    THEN [score |-> entry.score_false,
          tie |-> IF entry.cputime.success_false # 0
                  THEN Rational(1, entry.cputime.success_false) ELSE RatInt(0)]
    ELSE [score |-> entry.score,
          tie |-> IF entry.cputime.success # 0
                  THEN Rational(1, entry.cputime.success) ELSE RatInt(0)]

\* Python's order of tuples: by the first component, then by the second.
KeyLess(a, b) == a.score < b.score \/ (a.score = b.score /\ RatLess(a.tie, b.tie))

\* sorted(..., reverse=True) is stable: entries of equal key keep their order.
RECURSIVE InsertDescending(_, _, _)
InsertDescending(sorted, entry, is_falsification) ==
    IF sorted = <<>> THEN <<entry>>
    ELSE IF KeyLess(BestKey(sorted[1], is_falsification), BestKey(entry, is_falsification))
         THEN <<entry>> \o sorted
         ELSE <<sorted[1]>> \o InsertDescending(Tail(sorted), entry, is_falsification)

RECURSIVE SortedReverse(_, _)
SortedReverse(competitors, is_falsification) ==
    IF competitors = <<>> THEN <<>>
    ELSE InsertDescending(
             SortedReverse(SubSeq(competitors, 1, Len(competitors) - 1), is_falsification),
             competitors[Len(competitors)], is_falsification)

\* The slice [0:3] of a list that may be shorter.
FirstThree(list) == [i \in 1..(IF Len(list) < Medals THEN Len(list) ELSE Medals) |-> list[i]]

\* [name for name, result in sorted(...)[0:3]]
BestNames(sorted) == [i \in 1..Len(FirstThree(sorted)) |-> FirstThree(sorted)[i].name]

\* while len(result) < 3: result.append(None)
PadWithNone(result) == result \o [i \in 1..(Medals - Len(result)) |-> None]

VerifierCompetes_Positive(category, category_info, fm_tools_catalog, entry) ==
    /\ ~is_hors_concours(fm_tools_catalog, entry.name)
    /\ ~is_opt_out(category.name, entry.name, category_info)
    /\ (category.tasks_true + category.tasks_false) # 0
    /\ entry.score > 0

VerifierCompetes_Everyone(category, category_info, fm_tools_catalog, entry) ==
    (category.tasks_true + category.tasks_false) # 0

\* The condition of the list comprehension that builds competitors.
VerifierCompetes(category, category_info, fm_tools_catalog, entry) ==
    /\ ~is_hors_concours(fm_tools_catalog, entry.name)
    /\ ~is_opt_out(category.name, entry.name, category_info)
    /\ (category.tasks_true + category.tasks_false) # 0

get_best(category, category_info, fm_tools_catalog, is_falsification) ==
    PadWithNone(BestNames(SortedReverse(
        SelectSeq(category.results,
                  LAMBDA entry : VerifierCompetes(category, category_info,
                                                  fm_tools_catalog, entry)),
        is_falsification)))

\* v.split("-validate-")[0]: the tokens before the first separator.
RECURSIVE BeforeValidate(_)
BeforeValidate(v) ==
    IF v = <<>> \/ v[1] = "-validate-" THEN <<>>
    ELSE <<v[1]>> \o BeforeValidate(Tail(v))

\* is_considered of the validation track.
is_considered(category, tools, validator) ==
    /\ tools[validator].competes_in
    /\ ~is_hors_concours(tools, validator)
    /\ (category.witnesses_correct + category.witnesses_wrong) > 0

ConsideredValidators(category, tools) ==
    SelectSeq([i \in 1..Len(category.results) |->
                  [category.results[i] EXCEPT !.name = BeforeValidate(@)]],
              LAMBDA entry : is_considered(category, tools, entry.name))

PositiveScore_Any(entry) == TRUE

PositiveScore(entry) == entry.score > 0

\* result += [None] * winners_with_non_positive_score, when fewer than three were ranked.
WithPlaceholders(result, winners_with_non_positive_score) ==
    IF Len(result) < Medals
    THEN result \o [i \in 1..winners_with_non_positive_score |-> None]
    ELSE result

RankValidators(competitors, is_falsification) ==
    FirstThree(WithPlaceholders(
                   BestNames(SortedReverse(SelectSeq(competitors, PositiveScore),
                                           is_falsification)),
                   Len(SelectSeq(competitors, LAMBDA entry : entry.score <= 0))))

get_best_validators(category, tools, is_falsification) ==
    RankValidators(ConsideredValidators(category, tools), is_falsification)

----------------------------------------------------------------------------
(* The categories that are ranked *)

\* Names are lists of tokens, as the keys of category.results are.
Tools == << <<"cpachecker">>, <<"uautomizer">>, <<"symbiotic">>, <<"esbmc">> >>

\* Figures of a participant: score, score_false, CPU time of the successful runs and of
\* the successful runs on false tasks.
RankedFigures ==
    {<<2, 1, 1, 2>>, <<2, 1, 2, 1>>, <<2, 0, 0, 0>>, <<0, 1, 1, 0>>, <<-1, 0, 1, 1>>,
     <<3, 2, 1, 1>>}

ResultKey(track, tool) ==
    IF track = "verification" THEN tool
    ELSE tool \o <<"-validate-", "violation-witnesses-2.0">>

Catalogs ==
    {[tool \in {Tools[i] : i \in 1..Len(Tools)} |->
         [labels |-> IF tool = Tools[1] THEN labels ELSE {},
          competes_in |-> IF tool = Tools[2] THEN competes_in ELSE TRUE]] :
        labels \in {{}, {"inactive"}, {"meta_tool", "new"}}, competes_in \in BOOLEAN}

OptOuts ==
    {<<>>, [tool \in {Tools[3]} |-> {"ReachSafety"}],
     [tool \in {Tools[3]} |-> {"MemSafety"}]}

InitBest ==
    /\ results_file = RunSet(PlainRunSetName, NoRuns)
    /\ verifier_runs = results_file
    /\ validators = <<>>
    /\ linters = <<>>
    /\ invalid_tasks = {}
    /\ calls = <<>>
    /\ for_run = NotQueried
    /\ pair = Idle
    /\ database = None
    /\ \E track \in {"verification", "validation"}, n \in 0..Len(Tools),
          tasks \in {0, 5}, is_falsification \in BOOLEAN, catalog \in Catalogs :
          \E figures \in [1..n -> RankedFigures],
             opt_out \in (IF track = "verification" THEN OptOuts ELSE {<<>>}) :
             /\ track = "verification" => catalog[Tools[2]].competes_in
             /\ pc = (IF track = "verification" THEN "best" ELSE "best_validators")
             /\ scores =
                   [track |-> track,
                    category |->
                        [name |-> "ReachSafety", tasks_true |-> tasks, tasks_false |-> 0,
                         witnesses_correct |-> tasks, witnesses_wrong |-> 0,
                         results |->
                             [i \in 1..n |->
                                 Ranked(ResultKey(track, Tools[i]), figures[i][1],
                                        figures[i][2], figures[i][3], figures[i][4])]],
                    category_info |-> [opt_out |-> opt_out],
                    fm_tools_catalog |-> catalog,
                    is_falsification |-> is_falsification,
                    out |-> None]

GetBest ==
    /\ pc = "best"
    /\ scores' = [scores EXCEPT
                     !.out = get_best(scores.category, scores.category_info,
                                      scores.fm_tools_catalog, scores.is_falsification)]
    /\ pc' = "ranked"
    /\ UNCHANGED <<results_file, verifier_runs, validators, linters, invalid_tasks, calls,
                   for_run, pair, database>>

GetBestValidators ==
    /\ pc = "best_validators"
    /\ scores' = [scores EXCEPT
                     !.out = get_best_validators(scores.category, scores.fm_tools_catalog,
                                                 scores.is_falsification)]
    /\ pc' = "ranked"
    /\ UNCHANGED <<results_file, verifier_runs, validators, linters, invalid_tasks, calls,
                   for_run, pair, database>>

NextBest == GetBest \/ GetBestValidators

SpecBest == InitBest /\ [][NextBest]_vars

----------------------------------------------------------------------------
(* Vocabulary of the ranking properties *)

RankedDone == pc = "ranked"
VerificationRanking == RankedDone /\ scores.track = "verification"
ValidationRanking == RankedDone /\ scores.track = "validation"
Positions == 1..Len(scores.out)
Named == {i \in Positions : scores.out[i] # <<"\\None">>}
Candidates == 1..Len(scores.category.results)
CandidateAt(i) == scores.category.results[i]
\* The tool an entry of the results belongs to: the key up to "-validate-".
ToolOf(i) == IF scores.track = "verification" THEN CandidateAt(i).name ELSE <<CandidateAt(i).name[1]>>
CandidateNamed(name) == CHOOSE i \in Candidates : ToolOf(i) = name
OutOfCompetition(i) == \E label \in scores.fm_tools_catalog[ToolOf(i)].labels : label \in {"inactive", "meta_tool"}
OptedOut(i) == ToolOf(i) \in DOMAIN scores.category_info.opt_out /\ scores.category.name \in scores.category_info.opt_out[ToolOf(i)]
CategoryHasTasks == scores.category.tasks_true + scores.category.tasks_false > 0
Qualified(i) == ~OutOfCompetition(i) /\ ~OptedOut(i) /\ CategoryHasTasks
RankScore(i) == IF scores.is_falsification THEN CandidateAt(i).score_false ELSE CandidateAt(i).score
RankTime(i) == IF scores.is_falsification THEN CandidateAt(i).cputime.success_false ELSE CandidateAt(i).cputime.success
\* i belongs strictly before j: a higher score, or the same score and a positive CPU
\* time that is smaller than the one of j or meets a CPU time of zero.
Ahead(i, j) ==
    \/ RankScore(i) > RankScore(j)
    \/ /\ RankScore(i) = RankScore(j)
       /\ RankTime(i) > 0
       /\ (RankTime(j) = 0 \/ RankTime(i) < RankTime(j))
Listed(i) == \E k \in Named : scores.out[k] = ToolOf(i)

----------------------------------------------------------------------------
(* C21 *)

\* C21: get_best of the verification track names only participants that are neither
\* hors concours nor opted out of the category; the names are in the order of
\* descending score (score_false when ranking falsifiers); of two participants with the
\* same score the one with the smaller positive CPU time of its successful runs comes
\* first and one with a CPU time of zero comes after those with a positive one; and
\* no participant left out belongs before one that is named.
C21_BestAreQualifiedAndOrdered ==
    VerificationRanking =>
        /\ \A k \in Named :
              /\ \E i \in Candidates : ToolOf(i) = scores.out[k]
              /\ Qualified(CandidateNamed(scores.out[k]))
        /\ \A k \in Named, l \in Named :
              k < l => ~Ahead(CandidateNamed(scores.out[l]), CandidateNamed(scores.out[k]))
        /\ \A i \in Candidates, k \in Named :
              (Qualified(i) /\ ~Listed(i)) => ~Ahead(i, CandidateNamed(scores.out[k]))

\* C21, a reachable case: the participant with the highest score is hors concours and
\* is not named; two others have the same score, the one listed first in the results
\* has no successful CPU time and is ranked after the other.
C21_Witness ==
    /\ VerificationRanking /\ ~scores.is_falsification
    /\ Len(scores.category.results) = 3
    /\ OutOfCompetition(1) /\ RankScore(1) = 3
    /\ RankScore(2) = 2 /\ RankTime(2) = 0
    /\ RankScore(3) = 2 /\ RankTime(3) = 2
    /\ Qualified(2) /\ Qualified(3)
    /\ scores.out = <<ToolOf(3), ToolOf(2), <<"\\None">>>>

----------------------------------------------------------------------------
(* C22 *)

QualifiedCandidates == {i \in Candidates : Qualified(i)}
Unnamed == Positions \ Named

\* C22, as stated: the verification track returns three entries, the positions that
\* no qualifying participant takes are None, and no participant with a score that is
\* not positive is named.
C22_NonPositiveScoreIsNeverNamed ==
    VerificationRanking =>
        /\ Len(scores.out) = 3
        /\ Cardinality(QualifiedCandidates) < 3 =>
              Cardinality(Unnamed) = 3 - Cardinality(QualifiedCandidates)
        /\ \A k \in Named : RankScore(CandidateNamed(scores.out[k])) > 0

\* C22, amended: the verification track returns three entries; a position is None only
\* when fewer than three participants qualify, and then every qualifying participant
\* is named, whatever its score, and the None positions come last.
C22_EveryQualifiedIsNamedUpToThree ==
    VerificationRanking =>
        /\ Len(scores.out) = 3
        /\ Cardinality(QualifiedCandidates) >= 3 => Unnamed = {}
        /\ Cardinality(QualifiedCandidates) < 3 =>
              /\ Cardinality(Unnamed) = 3 - Cardinality(QualifiedCandidates)
              /\ \A i \in QualifiedCandidates : Listed(i)
        /\ \A k \in Named, l \in Unnamed : k < l
        /\ \A k \in Named, l \in Named : k # l => scores.out[k] # scores.out[l]

\* C22, a reachable case: two participants qualify, one of them with a negative score;
\* both are named and the third position is None.
C22_Witness ==
    /\ VerificationRanking /\ ~scores.is_falsification
    /\ Len(scores.category.results) = 2
    /\ Qualified(1) /\ Qualified(2)
    /\ RankScore(1) = -1 /\ RankScore(2) = 2
    /\ scores.out = <<ToolOf(2), ToolOf(1), <<"\\None">>>>

----------------------------------------------------------------------------
(* C28 *)

Considered(i) ==
    /\ scores.fm_tools_catalog[ToolOf(i)].competes_in
    /\ ~OutOfCompetition(i)
    /\ scores.category.witnesses_correct + scores.category.witnesses_wrong > 0
ConsideredWithScore == {i \in Candidates : Considered(i) /\ CandidateAt(i).score > 0}
ConsideredWithoutScore == {i \in Candidates : Considered(i) /\ CandidateAt(i).score <= 0}
Least(a, b) == IF a < b THEN a ELSE b

\* C28: get_best of the validation track names only considered validators with a
\* positive score; it has at most three entries, the names first, and after them one
\* None for each considered validator whose score is not positive, as far as three
\* positions allow.
C28_NonPositiveValidatorIsPlaceholder ==
    ValidationRanking =>
        /\ Len(scores.out) <= 3
        /\ \A k \in Named : CandidateNamed(scores.out[k]) \in ConsideredWithScore
        /\ Cardinality(Named) = Least(3, Cardinality(ConsideredWithScore))
        /\ Cardinality(Unnamed) =
              Least(3 - Cardinality(Named), Cardinality(ConsideredWithoutScore))
        /\ \A k \in Named, l \in Unnamed : k < l

\* C28, a reachable case: of three considered validators one has a positive score, one
\* the score 0 and one a negative score; the result names the first and holds two None.
C28_Witness ==
    /\ ValidationRanking /\ ~scores.is_falsification
    /\ Len(scores.category.results) = 3
    /\ \A i \in Candidates : Considered(i)
    /\ CandidateAt(1).score = 0 /\ CandidateAt(2).score = 2 /\ CandidateAt(3).score = -1
    /\ scores.out = <<ToolOf(2), <<"\\None">>, <<"\\None">>>>

----------------------------------------------------------------------------
(* mkAnaScores.main and mkAnaScoresValidators.main: the scoring batch *)

ScoreFiles == {"RSFSCORES", "TABSCORES", "HTMLSCORES", "TEXRANKING", "TEXRESULTS"}
Absent == [exists |-> FALSE, text |-> <<>>]
PreviousRun == [exists |-> TRUE, text |-> <<"previous run">>]

\* write_text opens the file for appending.
write_text(files, path, text) ==
    [files EXCEPT ![path] = [exists |-> TRUE, text |-> Append(@.text, text)]]

\* RSFSCORES.unlink(missing_ok=True), ... / remove_file(...) for the five files.
unlink_all(files) == [path \in ScoreFiles |-> Absent]

\* A VerificationCategory or ValidationCategory as the batch reads it: its name and
\* whether it counts tasks (tasks_true + tasks_false, or the witnesses, is not 0).
Processed(name, has_tasks) == [name |-> name, has_tasks |-> has_tasks]
\* The outcome of handling a category: an exception, or the info, which is None when
\* no result file of a base category holds a task; handle_category then returns a
\* category of zero tasks.
Returns(info) == [raised |-> None, info |-> info, is_none |-> FALSE]
ReturnsNone(category) == [raised |-> None, info |-> Processed(category, FALSE), is_none |-> TRUE]
Raises(exception, category) == [raised |-> <<exception>>, info |-> Processed(category, FALSE), is_none |-> FALSE]

\* processed_categories is a dict: its keys, and the value of a key.
Keys(processed_categories) ==
    {processed_categories[i].name : i \in 1..Len(processed_categories)}
Item(processed_categories, name) ==
    processed_categories[CHOOSE i \in 1..Len(processed_categories) :
                             processed_categories[i].name = name]

\* concatenate_dict with a dict of one new category.
concatenate_dict(dict1, info) ==
    IF info.name \in Keys(dict1)
    THEN [i \in 1..Len(dict1) |-> IF dict1[i].name = info.name THEN info ELSE dict1[i]]
    ELSE Append(dict1, info)

\* get_categories: mkAnaScores leaves out the meta categories named in validation_only.
get_categories(track, category_info) ==
    IF track = "verification"
    THEN {c \in DOMAIN category_info.categories : c \notin category_info.validation_only}
    ELSE DOMAIN category_info.categories

get_all_categories_process_order(track, category_info) ==
    IF track = "verification"
    THEN SelectSeq(category_info.categories_process_order,
                   LAMBDA c : c \notin category_info.validation_only)
    ELSE category_info.categories_process_order

get_all_categories_table_order(track, category_info) ==
    IF track = "verification"
    THEN SelectSeq(category_info.categories_table_order,
                   LAMBDA c : c \notin category_info.validation_only)
    ELSE category_info.categories_table_order

EndsWithOverall(category) == category \in {"Overall", "FalsificationOverall", "JavaOverall"}

\* base_categories and meta_categories of main.
base_categories(track, category_info) ==
    SelectSeq(get_all_categories_process_order(track, category_info),
              LAMBDA c : c \notin get_categories(track, category_info))
meta_categories(track, category_info) ==
    SelectSeq(get_all_categories_process_order(track, category_info),
              LAMBDA c : c \in get_categories(track, category_info) /\ ~EndsWithOverall(c))

\* The children a meta category reads: categories[meta_category]["categories"], in
\* mkAnaScores without those of validation_only.
SubcategoryNames(track, meta_category, category_info) ==
    IF track = "verification"
    THEN SelectSeq(category_info.categories[meta_category],
                   LAMBDA c : c \notin category_info.validation_only)
    ELSE category_info.categories[meta_category]

Range(list) == {list[i] : i \in 1..Len(list)}

LookedUp_None(track, meta_category, category_info, processed_categories) == {}

\* The children whose entry of processed_categories is read: all but the demo
\* categories (the test of demo_categories comes first in the condition).
LookedUp(track, meta_category, category_info, processed_categories) ==
    Range(SubcategoryNames(track, meta_category, category_info))
        \ category_info.demo_categories

IncludedInMeta(looked_up, processed_categories) ==
    {c \in looked_up \cap Keys(processed_categories) : Item(processed_categories, c).has_tasks}

\* handle_meta_category as far as the batch depends on it: a child that is not in
\* processed_categories raises KeyError; without an included child mkAnaScores divides
\* by zero, and mkAnaScoresValidators returns a category without witnesses.
MetaCategoryInfo(track, meta_category, category_info, processed_categories) ==
    IF LookedUp(track, meta_category, category_info, processed_categories)
           \subseteq Keys(processed_categories)
    THEN IF IncludedInMeta(LookedUp(track, meta_category, category_info,
                                    processed_categories), processed_categories) # {}
         THEN Returns(Processed(meta_category, TRUE))
         ELSE IF track = "verification"
              THEN Raises("ArithmeticError", meta_category)
              ELSE Returns(Processed(meta_category, FALSE))
    ELSE Raises("KeyError", meta_category)

\* handle_base_category as far as the batch depends on it: an assertion of the scoring
\* schema fails, or no result file holds a task (info is None), or the category has
\* tasks.
BaseCategoryInfo(category, data) ==
    IF category \in data.raising THEN Raises("AssertionError", category)
    ELSE IF category \in data.empty THEN ReturnsNone(category)
         ELSE Returns(Processed(category, TRUE))

handle_category(track, category, category_info, data, processed_categories) ==
    IF category \in get_categories(track, category_info)
    THEN MetaCategoryInfo(track, category, category_info, processed_categories)
    ELSE BaseCategoryInfo(category, data)

Processing(category) == <<"Processing category", category>>
CategoryDone(category) == <<"Category done", category>>

\* What handle_category prints: the second message only when it got an info.
Messages(category, result) ==
    IF result.raised = None /\ ~result.is_none
    THEN <<Processing(category), CategoryDone(category)>>
    ELSE <<Processing(category)>>

----------------------------------------------------------------------------
(* The category structures and result data of the batch *)

Structures ==
    {[categories |->
          [c \in {"ReachSafety", "SoftwareSystems", "Overall", "FalsificationOverall",
                  "JavaOverall"} |->
              CASE c = "ReachSafety" -> reach
                [] c = "SoftwareSystems" -> software
                [] c = "Overall" -> <<"ReachSafety", "SoftwareSystems">>
                [] c = "FalsificationOverall" -> <<"ReachSafety">>
                [] OTHER -> <<"SoftwareSystems.Drivers">>],
      categories_process_order |->
          <<"ReachSafety.Loops", "ReachSafety.Hardness", "SoftwareSystems.Drivers">>
              \o order,
      categories_table_order |->
          front \o <<"ReachSafety", "ReachSafety.Loops", "ReachSafety.Hardness",
                     "SoftwareSystems", "SoftwareSystems.Drivers", "Overall">> \o back,
      validation_only |-> {"ReachSafety.Hardness"},
      demo_categories |-> demo,
      competition |-> competition] :
        reach \in {<<"ReachSafety.Loops">>, <<"ReachSafety.Loops", "ReachSafety.Hardness">>,
                   <<"ReachSafety.Loops", "SoftwareSystems">>},
        software \in {<<"SoftwareSystems.Drivers">>,
                      <<"SoftwareSystems.Drivers", "ReachSafety">>},
        order \in {<<"ReachSafety", "SoftwareSystems">>, <<"SoftwareSystems", "ReachSafety">>},
        front \in {<<>>, <<"ConcurrencySafety">>},
        back \in {<<>>, <<"ConcurrencySafety">>},
        demo \in SUBSET {"SoftwareSystems.Drivers"},
        competition \in {"SV-COMP", "Test-Comp"}}

\* What the result files hold: the base categories in which an assertion of the scoring
\* schema fails, those without a task, and the ranked categories in which fewer than
\* three participants qualify for a medal.
BatchData ==
    {[raising |-> raising, empty |-> empty, few_competitors |-> few] :
        raising \in SUBSET {"ReachSafety.Loops"},
        empty \in SUBSET {"SoftwareSystems.Drivers"},
        few \in {{}, {"ReachSafety"}, {"Overall"}}}

NotMerged == [merged |-> FALSE, items |-> <<>>]
Merged(items) == [merged |-> TRUE, items |-> items]

InitMain ==
    /\ results_file = RunSet(PlainRunSetName, NoRuns)
    /\ verifier_runs = results_file
    /\ validators = <<>>
    /\ linters = <<>>
    /\ invalid_tasks = {}
    /\ calls = <<>>
    /\ for_run = NotQueried
    /\ pair = Idle
    /\ database = None
    /\ pc = "main"
    /\ \E track \in {"verification", "validation"}, category_info \in Structures,
          data \in BatchData, previous \in {Absent, PreviousRun} :
          /\ track = "validation" =>
                /\ category_info.competition = "SV-COMP"
                /\ data.few_competitors = {}
          /\ Len(category_info.categories_table_order) < 8
          /\ scores = [track |-> track, category_info |-> category_info, data |-> data,
                       pool |-> <<>>, processed_categories |-> NotMerged,
                       output |-> <<>>, files |-> [path \in ScoreFiles |-> previous],
                       at |-> 0, raised |-> None]

UnchangedOutsideScores ==
    UNCHANGED <<results_file, verifier_runs, validators, linters, invalid_tasks, calls,
                for_run, pair, database>>

BaseOf(state) == base_categories(state.track, state.category_info)
MetaOf(state) == meta_categories(state.track, state.category_info)

\* The table order that dump_output_files walks: mkAnaScoresValidators keeps only the
\* categories that were processed.
TableOf(state) ==
    IF state.track = "verification"
    THEN get_all_categories_table_order(state.track, state.category_info)
    ELSE SelectSeq(get_all_categories_table_order(state.track, state.category_info),
                   LAMBDA c : c \in Keys(state.processed_categories.items))

\* main up to the pool: mkAnaScores removes the five score files of an earlier run.
MainStart ==
    /\ pc = "main"
    /\ scores' = [scores EXCEPT
                     !.files = IF scores.track = "verification" THEN unlink_all(@) ELSE @]
    /\ pc' = "pool"
    /\ UnchangedOutsideScores

PoolNames(state) == {state.pool[k].name : k \in 1..Len(state.pool)}

WorkerResult(state, category) ==
    [name |-> category,
     result |-> handle_category(state.track, category, state.category_info, state.data, <<>>)]

\* A worker of the pool handles a base category: the single worker of mkAnaScores takes
\* them in order, the workers of mkAnaScoresValidators in any order.
WorkerHandlesCategory ==
    /\ pc = "pool"
    /\ \E i \in 1..Len(BaseOf(scores)) :
          /\ BaseOf(scores)[i] \notin PoolNames(scores)
          /\ scores.track = "verification" => i = Len(scores.pool) + 1
          /\ scores' = [scores EXCEPT
                           !.pool = Append(@, WorkerResult(scores, BaseOf(scores)[i])),
                           !.output = @ \o Messages(BaseOf(scores)[i],
                                                    WorkerResult(scores, BaseOf(scores)[i]).result)]
    /\ pc' = pc
    /\ UnchangedOutsideScores

PoolResult(state, category) ==
    state.pool[CHOOSE k \in 1..Len(state.pool) : state.pool[k].name = category].result

\* The categories of the list whose results the pool holds: all of them when map
\* returns.
PoolDone(state) == SelectSeq(BaseOf(state), LAMBDA c : c \in PoolNames(state))

PoolFailures(state) ==
    SelectSeq(PoolDone(state), LAMBDA c : PoolResult(state, c).raised # None)

\* dict(result_categories): the results in the order of the list.
PoolInfos(state) == [i \in 1..Len(PoolDone(state)) |-> PoolResult(state, PoolDone(state)[i]).info]

MapReturns_Early(state) == Len(state.pool) >= 1

\* parallel.map returns when every category of the list was handled.
MapReturns(state) == Len(state.pool) = Len(BaseOf(state))

\* handle_categories_parallel returns: the exception of a worker is raised in main, or
\* the results become processed_categories.
PoolMapReturns ==
    /\ pc = "pool"
    /\ MapReturns(scores)
    /\ IF PoolFailures(scores) = <<>>
       THEN /\ scores' = [scores EXCEPT
                             !.processed_categories = Merged(PoolInfos(scores)),
                             !.output = Append(@, <<"Base categories done.", "">>),
                             !.at = 1]
            /\ pc' = "meta"
       ELSE /\ scores' = [scores EXCEPT
                             !.raised = PoolResult(scores, PoolFailures(scores)[1]).raised]
            /\ pc' = "failed"
    /\ UnchangedOutsideScores

MetaResult(state, category) ==
    handle_category(state.track, category, state.category_info, state.data,
                    state.processed_categories.items)

\* The state after handle_category(category, ..., processed_categories) in main and the
\* concatenate_dict around it.
AfterCategory(state, category, before, after) ==
    IF MetaResult(state, category).raised = None
    THEN [state EXCEPT
             !.processed_categories =
                 Merged(concatenate_dict(@.items, MetaResult(state, category).info)),
             !.output = @ \o before
                          \o Messages(category, MetaResult(state, category)) \o after]
    ELSE [state EXCEPT
             !.output = @ \o before \o Messages(category, MetaResult(state, category)),
             !.raised = MetaResult(state, category).raised]

PcAfter(state, category, next) ==
    IF MetaResult(state, category).raised = None THEN next ELSE "failed"

\* One round of the loop over meta_categories.
HandleNextMetaCategory ==
    /\ pc = "meta"
    /\ scores.at <= Len(MetaOf(scores))
    /\ scores' = [AfterCategory(scores, MetaOf(scores)[scores.at], <<>>, <<>>) EXCEPT
                     !.at = @ + 1]
    /\ pc' = PcAfter(scores, MetaOf(scores)[scores.at], "meta")
    /\ UnchangedOutsideScores

\* The loop is over: Overall.
HandleOverall ==
    /\ pc = "meta"
    /\ scores.at > Len(MetaOf(scores))
    /\ scores' = AfterCategory(scores, "Overall", <<<<"Meta categories done.", "">>>>,
                               <<<<"Overall done.", "">>>>)
    /\ pc' = PcAfter(scores, "Overall",
                     IF scores.track = "verification"
                        /\ scores.category_info.competition = "SV-COMP"
                     THEN "falsification" ELSE "dump")
    /\ UnchangedOutsideScores

HandleFalsificationOverall ==
    /\ pc = "falsification"
    /\ scores' = AfterCategory(scores, "FalsificationOverall", <<>>,
                               <<<<"FalsifierOverall done.", "">>>>)
    /\ pc' = PcAfter(scores, "FalsificationOverall", "java")
    /\ UnchangedOutsideScores

HandleJavaOverall ==
    /\ pc = "java"
    /\ scores' = AfterCategory(scores, "JavaOverall", <<>>, <<<<"JavaOverall done.", "">>>>)
    /\ pc' = PcAfter(scores, "JavaOverall", "dump")
    /\ UnchangedOutsideScores

\* main before dump_output_files: mkAnaScoresValidators removes the score files here.
StartDump ==
    /\ pc = "dump"
    /\ scores' = [scores EXCEPT
                     !.output = Append(@, <<"Dumping TSV and HTML.", "">>),
                     !.files = IF scores.track = "validation" THEN unlink_all(@) ELSE @,
                     !.at = 1]
    /\ pc' = "dump_categories"
    /\ UnchangedOutsideScores

\* The categories of the ranking table.
InRanking(state, category) ==
    category \in Range(state.category_info.categories["Overall"]) \/ EndsWithOverall(category)

\* results[best_verifiers[rank]] for the three ranks: KeyError when get_best padded
\* its result with None.  mkAnaScoresValidators tests the name first.
RankingRaises(state, category) ==
    /\ state.track = "verification"
    /\ InRanking(state, category)
    /\ category \in state.data.few_competitors

\* The rows of the category are appended to the RSF file in the round of the category.
WrittenBeforeFailure(files, category) == write_text(files, "RSFSCORES", category)

\* One round of the loop of dump_output_files over categories_table_order.
DumpCategory ==
    /\ pc = "dump_categories"
    /\ scores.at <= Len(TableOf(scores))
    /\ IF TableOf(scores)[scores.at] \notin Keys(scores.processed_categories.items)
       THEN /\ scores' = [scores EXCEPT !.raised = <<"KeyError">>]
            /\ pc' = "failed"
       ELSE IF ~Item(scores.processed_categories.items, TableOf(scores)[scores.at]).has_tasks
       THEN /\ scores' = [scores EXCEPT !.at = @ + 1]
            /\ pc' = pc
       ELSE IF RankingRaises(scores, TableOf(scores)[scores.at])
       THEN /\ scores' = [scores EXCEPT
                             !.files = WrittenBeforeFailure(@, TableOf(scores)[scores.at]),
                             !.raised = <<"KeyError">>]
            /\ pc' = "failed"
       ELSE /\ scores' = [scores EXCEPT
                             !.files = write_text(@, "RSFSCORES", TableOf(scores)[scores.at]),
                             !.at = @ + 1]
            /\ pc' = pc
    /\ UnchangedOutsideScores

\* The end of dump_output_files: the TeX results table, then the TSV, HTML and TeX
\* ranking files, each written as a whole.
DumpTables ==
    /\ pc = "dump_categories"
    /\ scores.at > Len(TableOf(scores))
    /\ scores' = [scores EXCEPT
                     !.files = write_text(write_text(write_text(write_text(write_text(@,
                                   "TEXRESULTS", "results"), "TABSCORES", "scores"),
                                   "HTMLSCORES", "ranking"), "HTMLSCORES", "scores"),
                                   "TEXRANKING", "ranking"),
                     !.output = Append(@, <<"Finished.", "">>)]
    /\ pc' = "finished"
    /\ UnchangedOutsideScores

NextMain ==
    \/ MainStart
    \/ WorkerHandlesCategory
    \/ PoolMapReturns
    \/ HandleNextMetaCategory
    \/ HandleOverall
    \/ HandleFalsificationOverall
    \/ HandleJavaOverall
    \/ StartDump
    \/ DumpCategory
    \/ DumpTables

SpecMain == InitMain /\ [][NextMain]_vars

----------------------------------------------------------------------------
(* Vocabulary of the batch properties *)

Structure == scores.category_info
InVerification == scores.track = "verification"
MetaNames == DOMAIN Structure.categories
\* The categories the track scores: mkAnaScores leaves out those of validation_only.
Scored(c) == InVerification => c \notin Structure.validation_only
BaseNames == {Structure.categories_process_order[i] : i \in 1..Len(Structure.categories_process_order)} \ MetaNames
ScoredBaseNames == {c \in BaseNames : Scored(c)}
ChildrenOf(m) == {c \in {Structure.categories[m][i] : i \in 1..Len(Structure.categories[m])} : Scored(c)}
WorkersDone == {scores.pool[k].name : k \in 1..Len(scores.pool)}
Dict == scores.processed_categories.items
Present(c) == \E i \in 1..Len(Dict) : Dict[i].name = c
\* The place of a category in the dict, 0 when it is not a key.
PositionOf(c) == IF Present(c) THEN CHOOSE i \in 1..Len(Dict) : Dict[i].name = c ELSE 0
Announced(c) == \E i \in 1..Len(scores.output) : scores.output[i] = <<"Processing category", c>>
LastAnnounced(c) == \E i \in 1..Len(scores.output) : scores.output[i] = <<"Processing category", c>> /\ \A j \in (i + 1)..Len(scores.output) : scores.output[j][1] # "Processing category"
BatchFailed == pc = "failed"
BatchFinished == pc = "finished"

----------------------------------------------------------------------------
(* C23 *)

\* C23: in the scoring run no meta category (Overall, FalsificationOverall and
\* JavaOverall included) is handled before the workers have handled every base
\* category; a meta category enters processed_categories only after all of its
\* children that the track scores, and handling it while one of them is absent ends
\* the run; and processed_categories holds no result before the workers have returned
\* the results of all base categories.
C23_MetaAfterBaseAndChildren ==
    /\ \A m \in MetaNames : Announced(m) => WorkersDone = ScoredBaseNames
    /\ \A m \in MetaNames : Present(m) =>
          \A c \in ChildrenOf(m) : Present(c) /\ PositionOf(c) < PositionOf(m)
    /\ \A m \in MetaNames : (Announced(m) /\ ~Present(m)) =>
          BatchFailed /\ LastAnnounced(m)
    /\ Dict # <<>> =>
          /\ scores.processed_categories.merged
          /\ WorkersDone = ScoredBaseNames
          /\ \A c \in ScoredBaseNames : Present(c)
    /\ ~scores.processed_categories.merged => Dict = <<>> /\ pc \in {"main", "pool", "failed"}

\* C23, a reachable case: a run of mkAnaScores that finishes, in which ReachSafety has
\* the meta category SoftwareSystems as a child and is handled after it, and Overall,
\* FalsificationOverall and JavaOverall follow.
C23_Witness ==
    /\ BatchFinished /\ InVerification
    /\ "SoftwareSystems" \in ChildrenOf("ReachSafety")
    /\ \A c \in ScoredBaseNames : Present(c)
    /\ Present("SoftwareSystems")
    /\ PositionOf("SoftwareSystems") < PositionOf("ReachSafety")
    /\ PositionOf("ReachSafety") < PositionOf("Overall")
    /\ PositionOf("Overall") < PositionOf("FalsificationOverall")
    /\ PositionOf("FalsificationOverall") < PositionOf("JavaOverall")
    /\ \A c \in ScoredBaseNames : PositionOf(c) < PositionOf("SoftwareSystems")

----------------------------------------------------------------------------
(* C24 *)

WrittenInThisRun(path) == scores.files[path].exists /\ scores.files[path].text # <<"previous run">>

\* C24: when the scoring batch fails, while a category is handled or while the tables
\* are produced, none of the score files (RSF, TSV, HTML, TeX) has been written by
\* the run.
C24_FailedBatchWritesNoScoreFile ==
    BatchFailed => \A path \in {"RSFSCORES", "TABSCORES", "HTMLSCORES", "TEXRANKING", "TEXRESULTS"} : ~WrittenInThisRun(path)

----------------------------------------------------------------------------
(* mkAnaScores._get_qplot_data: the points of the quantile plots *)

\* (float(run_result.score) / tasks_total_valid, curr_value, run_result.status)
QPlotPoint(run_result, curr_value, tasks_total_valid) ==
    [score |-> Rational(run_result.score, tasks_total_valid), value |-> curr_value,
     status |-> run_result.status]

QPlotOutcome(raised, points) == [raised |-> raised, points |-> points]

PlottedCategory_AlsoMissing(category, status, competition) ==
    \/ category \in {CATEGORY_WRONG, CATEGORY_CORRECT, CATEGORY_CORRECT_UNCONFIRMED}
    \/ competition # SV_COMP
    \/ category = CATEGORY_MISSING /\ startswith(status, <<"invalid task", " ", "(">>)

\* The first condition of the loop body.
PlottedCategory(category, status, competition) ==
    \/ category \in {CATEGORY_WRONG, CATEGORY_CORRECT, CATEGORY_CORRECT_UNCONFIRMED}
    \/ competition # SV_COMP

\* The loop over zip(run_set_result.results, values), from the pair at position i on.
RECURSIVE QPlotFrom(_, _, _, _, _, _)
QPlotFrom(i, results, values, tasks_total_valid, competition, qplot_data) ==
    IF i > Len(results) \/ i > Len(values) THEN QPlotOutcome(None, qplot_data)
    ELSE IF PlottedCategory(results[i].category, results[i].status, competition)
    THEN QPlotFrom(i + 1, results, values, tasks_total_valid, competition,
                   Append(qplot_data, QPlotPoint(results[i], values[i], tasks_total_valid)))
    ELSE IF results[i].category = CATEGORY_MISSING
    THEN QPlotFrom(i + 1, results, values, tasks_total_valid, competition, qplot_data)
    ELSE IF results[i].category \in {CATEGORY_ERROR, CATEGORY_UNKNOWN, <<"aborted">>}
    THEN QPlotFrom(i + 1, results, values, tasks_total_valid, competition, qplot_data)
    ELSE QPlotOutcome(<<"AssertionError">>, qplot_data)

_get_qplot_data(run_set_result, values, tasks_total_valid, competition) ==
    QPlotFrom(1, run_set_result, values, tasks_total_valid, competition, <<>>)

\* The score of the scoring schema for a run of the verification track.
SchemaScoreOf(category, status) ==
    IF category = CATEGORY_CORRECT
    THEN (IF is_tool_status_false(status) THEN 1 ELSE 2)
    ELSE IF category = CATEGORY_WRONG
    THEN (IF is_tool_status_false(status) THEN -16 ELSE -32)
    ELSE 0

QPlotRuns ==
    {[status |-> status, category |-> category, score |-> SchemaScoreOf(category, status)] :
        status \in {<<"true">>, <<"false", "(", "unreach-call", ")">>,
                    Tagged(<<"invalid task">>, <<"true">>)},
        category \in {CATEGORY_CORRECT, CATEGORY_CORRECT_UNCONFIRMED, CATEGORY_WRONG,
                      CATEGORY_MISSING, CATEGORY_ERROR, CATEGORY_UNKNOWN}}

\* _get_column_values: one value for each run, or the empty list when the run set has
\* no column of the name.
ColumnValues(results, has_column) ==
    IF has_column THEN [i \in 1..Len(results) |-> 10 * i] ELSE <<>>

InitQPlot ==
    /\ results_file = RunSet(PlainRunSetName, NoRuns)
    /\ verifier_runs = results_file
    /\ validators = <<>>
    /\ linters = <<>>
    /\ invalid_tasks = {}
    /\ calls = <<>>
    /\ for_run = NotQueried
    /\ pair = Idle
    /\ database = None
    /\ pc = "qplot"
    /\ \E run_set_result \in ListsUpTo(QPlotRuns, MaxResults), has_column \in BOOLEAN,
          tasks_total_valid \in {2, 5}, competition \in {SV_COMP, TEST_COMP} :
          scores = [run_set_result |-> run_set_result,
                    values |-> ColumnValues(run_set_result, has_column),
                    tasks_total_valid |-> tasks_total_valid,
                    competition |-> competition, out |-> QPlotOutcome(None, <<>>)]

GetQPlotData ==
    /\ pc = "qplot"
    /\ scores' = [scores EXCEPT
                     !.out = _get_qplot_data(scores.run_set_result, scores.values,
                                             scores.tasks_total_valid, scores.competition)]
    /\ pc' = "plotted"
    /\ UnchangedOutsideScores

NextQPlot == GetQPlotData

SpecQPlot == InitQPlot /\ [][NextQPlot]_vars

----------------------------------------------------------------------------
(* C25 *)

Plotted == pc = "plotted"
RunAt(i) == scores.run_set_result[i]
Runs == 1..Len(scores.run_set_result)
HasMeasurement(i) == i <= Len(scores.values)
CountedCategory(i) == RunAt(i).category \in {<<"correct">>, <<"correct", "-unconfirmed">>, <<"wrong">>}
MarkedInvalid(i) == Len(RunAt(i).status) >= 3 /\ SubSeq(RunAt(i).status, 1, 3) = <<"invalid task", " ", "(">>
PointOf(i) == [score |-> Rational(RunAt(i).score, scores.tasks_total_valid), value |-> scores.values[i], status |-> RunAt(i).status]
RECURSIVE PointsOf(_, _)
PointsOf(i, wanted) == IF i > Len(scores.run_set_result) THEN <<>> ELSE (IF i \in wanted THEN <<PointOf(i)>> ELSE <<>>) \o PointsOf(i + 1, wanted)

\* C25, as stated: for SV-COMP the points are, in the order of the runs, those of the
\* runs of category correct, correct-unconfirmed or wrong, and those of the runs of
\* category missing whose status marks an invalid task.
C25_MissingPlottedWhenInvalidTask ==
    (Plotted /\ scores.competition = "SV-COMP") =>
        scores.out.points = PointsOf(1, {i \in Runs : HasMeasurement(i) /\ (CountedCategory(i) \/ (RunAt(i).category = <<"missing">> /\ MarkedInvalid(i)))})

\* C25, amended: for SV-COMP the points are, in the order of the runs, exactly those of
\* the runs of category correct, correct-unconfirmed or wrong that have a value in the
\* measured column: (score / valid task count, value, status).  No run of category
\* missing gives a point, whatever its status.
C25_MissingIsNeverPlotted ==
    (Plotted /\ scores.competition = "SV-COMP") =>
        /\ scores.out.raised = <<"\\None">>
        /\ scores.out.points = PointsOf(1, {i \in Runs : HasMeasurement(i) /\ CountedCategory(i)})

\* C25, a reachable case: a wrong run and a missing run marked as an invalid task, both
\* measured; the only point is the one of the wrong run.
C25_Witness ==
    /\ Plotted /\ scores.competition = "SV-COMP"
    /\ Len(scores.run_set_result) = 2 /\ Len(scores.values) = 2
    /\ RunAt(1).category = <<"missing">> /\ MarkedInvalid(1)
    /\ RunAt(2).category = <<"wrong">> /\ RunAt(2).status = <<"true">>
    /\ scores.out.points = <<[score |-> Rational(-32, scores.tasks_total_valid), value |-> 20, status |-> <<"true">>]>>

----------------------------------------------------------------------------
(* adjust_results_validators: adjust_results, wrap_fix and main *)

WITNESS_CATEGORY_MISSING == <<"missing">>
WITNESS_CATEGORY_ERROR == <<"error">>

\* A run of the result file after the loop body: its status and category columns, the
\* witness-category column (None when none was appended), whether the run was removed
\* from the document, and whether the witnesslint-* columns were copied to it.
AdjustedRun(status, category, witness_category, removed, copied) ==
    [raised |-> None, status |-> status, category |-> category,
     witness_category |-> witness_category, removed |-> removed, copied |-> copied]
RunRaises(exception, run) ==
    [raised |-> <<exception>>, status |-> run.status, category |-> run.category,
     witness_category |-> None, removed |-> FALSE, copied |-> FALSE]

\* is_invalid_witness: the witness file of the linter run is listed as invalid, or the
\* task has no linter run.
IsInvalidWitness(run) ==
    IF run.linter.present
    THEN run.linter.has_witness_file /\ run.linter.witness_file_invalid
    ELSE TRUE

\* The branch of the invalid tasks, invalid witnesses and excluded tasks.
SetAside(run) ==
    IF run.invalid_task
    THEN AdjustedRun(Tagged(<<"invalid task">>, run.status), CATEGORY_MISSING,
                     WITNESS_CATEGORY_MISSING, FALSE, FALSE)
    ELSE IF IsInvalidWitness(run)
    THEN AdjustedRun(Tagged(<<"invalid witness">>, run.status), CATEGORY_MISSING,
                     WITNESS_CATEGORY_MISSING, FALSE, FALSE)
    ELSE AdjustedRun(Tagged(<<"unsupported witness">>, run.status), CATEGORY_ERROR,
                     WITNESS_CATEGORY_ERROR, FALSE, FALSE)

ValidClassification_Any(witness_validity) == witness_validity # NaN

\* The two assertions on the value read from the witness classification.
ValidClassification(witness_validity) ==
    /\ witness_validity # NaN
    /\ witness_validity \in {WITNESS_CATEGORY_CORRECT, WITNESS_CATEGORY_WRONG,
                             WITNESS_CATEGORY_UNKNOWN}

IsViolationType(witness_type) == witness_type \in {<<"violation_witness">>, <<"VIOLATION">>}
IsCorrectnessType(witness_type) == witness_type \in {<<"correctness_witness">>, <<"CORRECTNESS">>}

CategoryForWitness_Previous(category, status, witness_type, has_witness_type, witness_category) == category

\* category_new: the chain of conditions that adjusts the result category.  A witness
\* type that is neither a violation nor a correctness witness assigns nothing.
CategoryForWitness(category, status, witness_type, has_witness_type, witness_category) ==
    IF category \notin {CATEGORY_CORRECT, CATEGORY_WRONG} THEN category
    ELSE IF ~has_witness_type THEN CATEGORY_UNKNOWN
    ELSE IF witness_category \notin {WITNESS_CATEGORY_CORRECT, WITNESS_CATEGORY_WRONG}
    THEN CATEGORY_UNKNOWN
    ELSE IF witness_category = WITNESS_CATEGORY_CORRECT
    THEN IF IsViolationType(witness_type)
         THEN IF startswith(status, <<"true">>) THEN CATEGORY_WRONG
              ELSE IF startswith(status, <<"false">>) THEN CATEGORY_CORRECT
              ELSE CATEGORY_UNKNOWN
         ELSE IF IsCorrectnessType(witness_type)
         THEN IF startswith(status, <<"true">>) THEN CATEGORY_CORRECT
              ELSE IF startswith(status, <<"false">>) THEN CATEGORY_WRONG
              ELSE CATEGORY_UNKNOWN
         ELSE <<"\\unassigned">>
    ELSE IF IsViolationType(witness_type)
         THEN IF startswith(status, <<"true">>) THEN CATEGORY_CORRECT
              ELSE IF startswith(status, <<"false">>) THEN CATEGORY_WRONG
              ELSE CATEGORY_UNKNOWN
         ELSE IF IsCorrectnessType(witness_type)
         THEN IF startswith(status, <<"true">>) THEN CATEGORY_WRONG
              ELSE IF startswith(status, <<"false">>) THEN CATEGORY_CORRECT
              ELSE CATEGORY_UNKNOWN
         ELSE <<"\\unassigned">>

\* The end of the loop body, once witness_category is known.
WithWitnessCategory(run, is_witnesslint, witness_category) ==
    AdjustedRun(run.status,
                CategoryForWitness(run.category, run.status, run.linter.witness_type,
                                   run.linter.witness_type # None, witness_category),
                witness_category, FALSE, ~is_witnesslint)

Removed(run) == AdjustedRun(run.status, run.category, None, TRUE, FALSE)

\* The chain of conditions on the linter run that sets witness_category.
AdjustWithLinter(run, is_witnesslint, validation_type) ==
    IF Search("witness does not exist", run.linter.status)
    THEN IF ~is_witnesslint THEN Removed(run)
         ELSE WithWitnessCategory(run, is_witnesslint, WITNESS_CATEGORY_MISSING)
    ELSE IF run.linter.witness_type # None /\ run.linter.witness_type # validation_type
    THEN Removed(run)
    ELSE IF Search("invalid witness syntax", run.linter.status)
            \/ Search("program does not exist", run.linter.status)
            \/ Search("EXCEPTION", run.linter.status)
    THEN WithWitnessCategory(run, is_witnesslint, WITNESS_CATEGORY_ERROR)
    ELSE IF run.linter.category = CATEGORY_ERROR
    THEN WithWitnessCategory(run, is_witnesslint, WITNESS_CATEGORY_ERROR)
    ELSE IF run.linter.category = CATEGORY_UNKNOWN
    THEN RunRaises("AssertionError", run)
    ELSE WithWitnessCategory(run, is_witnesslint, run.witness_validity)

\* The body of the loop over the runs of the result file.
AdjustValidatorRun(run, is_witnesslint, validation_type) ==
    IF run.invalid_task \/ IsInvalidWitness(run) \/ run.excluded
    THEN SetAside(run)
    ELSE IF ~run.classified THEN RunRaises("KeyError", run)
    ELSE IF ~ValidClassification(run.witness_validity)
    THEN RunRaises("AssertionError", run)
    ELSE IF run.assert_java
    THEN AdjustedRun(run.status, run.category, None, FALSE, FALSE)
    ELSE AdjustWithLinter(run, is_witnesslint, validation_type)

FixedFile(written, raised, runs) == [written |-> written, raised |-> raised, runs |-> runs]

\* The loop: an exception ends it before the fixed file is written.
RECURSIVE AdjustRunsFrom(_, _, _)
AdjustRunsFrom(i, file, adjusted) ==
    IF i > Len(file.runs) THEN FixedFile(TRUE, None, adjusted)
    ELSE IF AdjustValidatorRun(file.runs[i], file.is_witnesslint, file.validation_type).raised
                # None
    THEN FixedFile(FALSE, AdjustValidatorRun(file.runs[i], file.is_witnesslint,
                                             file.validation_type).raised, <<>>)
    ELSE AdjustRunsFrom(i + 1, file,
             Append(adjusted, AdjustValidatorRun(file.runs[i], file.is_witnesslint,
                                                 file.validation_type)))

adjust_results(file) == AdjustRunsFrom(1, file, <<>>)

\* wrap_fix returns without a fixed file when a file of the tuple is not found.
wrap_fix(file) == IF file.found THEN adjust_results(file) ELSE FixedFile(FALSE, None, <<>>)

\* Inputs of the adjustment.
LinterRun(present, has_witness_file, witness_file_invalid, witness_type, status, category) ==
    [present |-> present, has_witness_file |-> has_witness_file,
     witness_file_invalid |-> witness_file_invalid, witness_type |-> witness_type,
     status |-> status, category |-> category]
NoLinterRun == LinterRun(FALSE, FALSE, FALSE, None, None, None)
ValidatorRun(status, category, invalid_task, excluded, classified, witness_validity, assert_java, linter) ==
    [status |-> status, category |-> category, invalid_task |-> invalid_task,
     excluded |-> excluded, classified |-> classified,
     witness_validity |-> witness_validity, assert_java |-> assert_java, linter |-> linter]

ViolationType == <<"violation_witness">>
CorrectnessType == <<"CORRECTNESS">>
StatusTrue == <<"true">>
StatusFalseReach == <<"false", "(", "unreach-call", ")">>
StatusTimeout == <<"TIMEOUT">>
UnexpectedClassification == <<"invalid">>

LinterSituations ==
    { LinterRun(TRUE, TRUE, FALSE, ViolationType, StatusTrue, CATEGORY_CORRECT),
      LinterRun(TRUE, TRUE, FALSE, CorrectnessType, StatusTrue, CATEGORY_CORRECT),
      LinterRun(TRUE, TRUE, FALSE, None, StatusTrue, CATEGORY_CORRECT),
      LinterRun(TRUE, FALSE, FALSE, None,
                <<"ERROR ", "(", "witness does not exist", ")">>, CATEGORY_ERROR),
      LinterRun(TRUE, TRUE, FALSE, ViolationType,
                <<"ERROR ", "(", "invalid witness syntax", ")">>, CATEGORY_ERROR),
      LinterRun(TRUE, TRUE, FALSE, CorrectnessType, <<"ERROR ", "(", "1", ")">>,
                CATEGORY_ERROR),
      LinterRun(TRUE, TRUE, FALSE, ViolationType, StatusTimeout, CATEGORY_UNKNOWN) }

LintedRun == LinterRun(TRUE, TRUE, FALSE, ViolationType, StatusTrue, CATEGORY_CORRECT)

SetAsideRuns ==
    { ValidatorRun(StatusTrue, CATEGORY_CORRECT, TRUE, FALSE, TRUE,
                   WITNESS_CATEGORY_CORRECT, FALSE, LintedRun),
      ValidatorRun(StatusTrue, CATEGORY_CORRECT, FALSE, FALSE, TRUE,
                   UnexpectedClassification, FALSE, NoLinterRun),
      ValidatorRun(StatusFalseReach, CATEGORY_WRONG, FALSE, FALSE, TRUE,
                   WITNESS_CATEGORY_CORRECT, FALSE,
                   LinterRun(TRUE, TRUE, TRUE, ViolationType, StatusTrue, CATEGORY_CORRECT)),
      ValidatorRun(StatusTrue, CATEGORY_CORRECT, FALSE, TRUE, TRUE,
                   UnexpectedClassification, FALSE, LintedRun) }

JavaRuns ==
    { ValidatorRun(StatusTrue, CATEGORY_CORRECT, FALSE, FALSE, TRUE, v, TRUE, LintedRun) :
        v \in {WITNESS_CATEGORY_CORRECT, UnexpectedClassification} }

UnclassifiedRuns ==
    { ValidatorRun(StatusTrue, CATEGORY_CORRECT, FALSE, FALSE, FALSE, NaN, FALSE, LintedRun) }

VariedRuns ==
    { ValidatorRun(status, category, FALSE, FALSE, TRUE, v, FALSE, linter) :
        status \in {StatusTrue, StatusFalseReach, StatusTimeout},
        category \in {CATEGORY_CORRECT, CATEGORY_WRONG, CATEGORY_UNKNOWN, CATEGORY_ERROR},
        v \in {WITNESS_CATEGORY_CORRECT, WITNESS_CATEGORY_WRONG, WITNESS_CATEGORY_UNKNOWN,
               UnexpectedClassification, NaN},
        linter \in LinterSituations }

FirstRuns == SetAsideRuns \cup JavaRuns \cup UnclassifiedRuns \cup VariedRuns

LaterRuns ==
    { <<>>,
      <<ValidatorRun(StatusFalseReach, CATEGORY_CORRECT, FALSE, FALSE, TRUE,
                     WITNESS_CATEGORY_CORRECT, FALSE, LintedRun)>>,
      <<ValidatorRun(StatusTrue, CATEGORY_CORRECT, FALSE, FALSE, TRUE,
                     UnexpectedClassification, FALSE, LintedRun)>> }

ResultFile(found, is_witnesslint, validation_type, runs) ==
    [found |-> found, is_witnesslint |-> is_witnesslint,
     validation_type |-> validation_type, runs |-> runs]

NotAdjusted == [handled |-> FALSE, file |-> FixedFile(FALSE, None, <<>>)]
FixDone(file) == [handled |-> TRUE, file |-> file]
NotExited == [exited |-> FALSE, code |-> 0]
Exit(code) == [exited |-> TRUE, code |-> code]

InitAdjust ==
    /\ results_file = RunSet(PlainRunSetName, NoRuns)
    /\ verifier_runs = results_file
    /\ validators = <<>>
    /\ linters = <<>>
    /\ invalid_tasks = {}
    /\ calls = <<>>
    /\ for_run = NotQueried
    /\ pair = Idle
    /\ database = None
    /\ pc = "adjust"
    /\ \E first \in FirstRuns, later \in LaterRuns, is_witnesslint \in BOOLEAN,
          validation_type \in {ViolationType, CorrectnessType},
          one_file \in BOOLEAN, other_found \in BOOLEAN :
          scores = [one_file |-> one_file,
                    work |-> IF one_file
                             THEN <<ResultFile(TRUE, is_witnesslint, validation_type,
                                               <<first>> \o later)>>
                             ELSE <<ResultFile(TRUE, is_witnesslint, validation_type,
                                               <<first>> \o later),
                                    ResultFile(other_found, FALSE, validation_type,
                                               <<ValidatorRun(StatusTrue, CATEGORY_CORRECT,
                                                   FALSE, FALSE, TRUE,
                                                   WITNESS_CATEGORY_WRONG, FALSE,
                                                   LintedRun)>>)>>,
                    fixed |-> IF one_file THEN <<NotAdjusted>>
                              ELSE <<NotAdjusted, NotAdjusted>>,
                    exit |-> NotExited]

\* main with the arguments of one result file: adjust_results is called directly, and
\* an exception it raises ends the interpreter with exit code 1.
AdjustOneFile ==
    /\ pc = "adjust"
    /\ scores.one_file
    /\ scores' = [scores EXCEPT
                    !.fixed = <<FixDone(adjust_results(scores.work[1]))>>,
                    !.exit = IF adjust_results(scores.work[1]).raised # None
                             THEN Exit(1) ELSE Exit(0)]
    /\ pc' = "exited"
    /\ UnchangedOutsideScores

\* A worker of the pool applies wrap_fix to one tuple of the work list.
WorkerWrapsFix ==
    /\ pc = "adjust"
    /\ ~scores.one_file
    /\ \E i \in 1..Len(scores.work) :
          /\ ~scores.fixed[i].handled
          /\ scores' = [scores EXCEPT !.fixed[i] = FixDone(wrap_fix(scores.work[i]))]
    /\ pc' = pc
    /\ UnchangedOutsideScores

\* p.map returns once every tuple is handled and re-raises an exception of a worker:
\* an AssertionError is logged and followed by sys.exit(1), any other exception is not
\* caught and ends the interpreter with exit code 1.
ExitAfterMap(fixed) ==
    IF \E i \in 1..Len(fixed) : fixed[i].file.raised # None THEN Exit(1) ELSE Exit(0)

MapFixReturns ==
    /\ pc = "adjust"
    /\ ~scores.one_file
    /\ \A i \in 1..Len(scores.work) : scores.fixed[i].handled
    /\ scores' = [scores EXCEPT !.exit = ExitAfterMap(scores.fixed)]
    /\ pc' = "exited"
    /\ UnchangedOutsideScores

NextAdjust == AdjustOneFile \/ WorkerWrapsFix \/ MapFixReturns

SpecAdjust == InitAdjust /\ [][NextAdjust]_vars

----------------------------------------------------------------------------
(* Vocabulary and properties of the validator-track adjustment *)

AdjustExited == pc = "exited"
WorkItems == 1..Len(scores.work)
InputRuns(i) == 1..Len(scores.work[i].runs)
InputRun(i, k) == scores.work[i].runs[k]
FixHandled(i) == scores.fixed[i].handled
FixWritten(i) == scores.fixed[i].handled /\ scores.fixed[i].file.written
OutputRun(i, k) == scores.fixed[i].file.runs[k]

\* The run is neither an invalid task, nor without a valid linted witness, nor excluded.
KeptForClassification(r) ==
    /\ ~r.invalid_task
    /\ r.linter.present
    /\ ~(r.linter.has_witness_file /\ r.linter.witness_file_invalid)
    /\ ~r.excluded

\* The value looked up for the run is not one of correct, wrong, unknown.
BadlyClassified(r) ==
    /\ KeptForClassification(r)
    /\ r.classified
    /\ r.witness_validity # <<"correct">>
    /\ r.witness_validity # <<"wrong">>
    /\ r.witness_validity # <<"unknown">>

HasBadClassification(i) ==
    scores.work[i].found /\ \E k \in InputRuns(i) : BadlyClassified(InputRun(i, k))

\* C26: when the classification looked up for a run of a result file is not one of
\* correct, wrong, unknown, the adjustment of that file raises and writes no fixed file
\* (an AssertionError when the run is the first of the file), and the driver, with one
\* file or with the whole work list, exits with a non-zero code.
C26_BadClassificationIsFatal ==
    \A i \in WorkItems :
        HasBadClassification(i) =>
            /\ FixHandled(i) =>
                  /\ ~scores.fixed[i].file.written
                  /\ scores.fixed[i].file.raised # None
                  /\ BadlyClassified(InputRun(i, 1))
                        => scores.fixed[i].file.raised = <<"AssertionError">>
            /\ AdjustExited => scores.exit.exited /\ scores.exit.code # 0

C26_Witness ==
    /\ AdjustExited
    /\ ~scores.one_file
    /\ BadlyClassified(InputRun(1, 1))
    /\ InputRun(1, 1).witness_validity = UnexpectedClassification
    /\ scores.fixed[1].file.raised = <<"AssertionError">>
    /\ ~FixWritten(1)
    /\ FixWritten(2)
    /\ scores.exit.code = 1

\* The run reached the adjustment of its category: it was kept, is no Java run, and was
\* not removed from the document.
CategoryAdjusted(i, k) ==
    /\ FixWritten(i)
    /\ KeptForClassification(InputRun(i, k))
    /\ ~InputRun(i, k).assert_java
    /\ ~OutputRun(i, k).removed

StartsTrue(status) == Len(status) > 0 /\ status[1] = "true"
StartsFalse(status) == Len(status) > 0 /\ status[1] = "false"
ViolationWitness(t) == t = <<"violation_witness">> \/ t = <<"VIOLATION">>
CorrectnessWitness(t) == t = <<"correctness_witness">> \/ t = <<"CORRECTNESS">>

\* Status and witness agree: "false" with a correct violation witness or a wrong
\* correctness witness, "true" with a correct correctness witness or a wrong violation
\* witness.
WitnessAgrees(status, witness_type, witness_category) ==
    \/ /\ StartsFalse(status)
       /\ \/ witness_category = <<"correct">> /\ ViolationWitness(witness_type)
          \/ witness_category = <<"wrong">> /\ CorrectnessWitness(witness_type)
    \/ /\ StartsTrue(status)
       /\ \/ witness_category = <<"correct">> /\ CorrectnessWitness(witness_type)
          \/ witness_category = <<"wrong">> /\ ViolationWitness(witness_type)

ExpectedCategory(category, status, witness_type, witness_category) ==
    IF category # <<"correct">> /\ category # <<"wrong">> THEN category
    ELSE IF witness_type = None THEN <<"unknown">>
    ELSE IF witness_category # <<"correct">> /\ witness_category # <<"wrong">>
    THEN <<"unknown">>
    ELSE IF ~StartsTrue(status) /\ ~StartsFalse(status) THEN <<"unknown">>
    ELSE IF WitnessAgrees(status, witness_type, witness_category) THEN <<"correct">>
    ELSE <<"wrong">>

\* C27: a run that reaches the adjustment with category correct or wrong gets a category
\* determined by its witness category, witness type and status prefix alone: correct
\* when status and witness agree, wrong when they disagree, unknown when the status
\* starts with neither "true" nor "false", the witness type is absent or the witness
\* category is not correct or wrong; a run of another category keeps its category.
C27_CategoryFollowsWitnessTable ==
    \A i \in WorkItems :
        \A k \in InputRuns(i) :
            CategoryAdjusted(i, k) =>
                OutputRun(i, k).category =
                    ExpectedCategory(InputRun(i, k).category, InputRun(i, k).status,
                                     InputRun(i, k).linter.witness_type,
                                     OutputRun(i, k).witness_category)

C27_Witness ==
    /\ CategoryAdjusted(1, 1)
    /\ InputRun(1, 1).category = <<"wrong">>
    /\ StartsFalse(InputRun(1, 1).status)
    /\ CorrectnessWitness(InputRun(1, 1).linter.witness_type)
    /\ OutputRun(1, 1).witness_category = <<"wrong">>
    /\ OutputRun(1, 1).category = <<"correct">>

----------------------------------------------------------------------------
(* mkAnaScoresValidators: does_tool_participate and get_results_XML_file *)

StructureEntry(name, tool_validators, tool_verifiers, categories) ==
    [name |-> name, validators |-> tool_validators, verifiers |-> tool_verifiers,
     categories |-> categories]

\* categories[name][check_for]
ParticipantsOf(entry, check_for) ==
    IF check_for = "validators" THEN entry.validators ELSE entry.verifiers

\* The indices of the entries with the key category, and of the entries that list it
\* as a subcategory, in the order of the dict.
EntriesNamed(categories, category) ==
    {i \in 1..Len(categories) : categories[i].name = category}
EntriesHolding(categories, category) ==
    {i \in 1..Len(categories) : category \in categories[i].categories}
FirstOf(indices) == CHOOSE i \in indices : \A j \in indices : i <= j

does_tool_participate(category, tool, category_info, default_reject, check_for) ==
    IF \E t \in default_reject : Search(t, tool) THEN FALSE
    ELSE IF <<tool, category>> \in category_info.opt_out THEN FALSE
    ELSE IF <<tool, category>> \in category_info.opt_in THEN TRUE
    ELSE IF EntriesNamed(category_info.categories, category) # {}
    THEN tool \in ParticipantsOf(
             category_info.categories[
                 FirstOf(EntriesNamed(category_info.categories, category))], check_for)
    ELSE IF EntriesHolding(category_info.categories, category) # {}
    THEN tool \in ParticipantsOf(
             category_info.categories[
                 FirstOf(EntriesHolding(category_info.categories, category))], check_for)
    ELSE FALSE

XMLFile(value) == [raised |-> None, value |-> value]
XMLFileRaises(exception) == [raised |-> <<exception>>, value |-> None]

\* sorted(xml_files, reverse=True)[0]: the file with the latest date in its name.
LatestFile(xml_files) == CHOOSE f \in xml_files : \A g \in xml_files : g.date <= f.date

\* The body of the try statement.
TryResultsXMLFile(subcategory, validator, verifier, xml_files, category_info) ==
    IF xml_files = {}
    THEN IF \/ ~does_tool_participate(subcategory, validator, category_info,
                                      {"witnesslint"}, "validators")
            \/ ~does_tool_participate(subcategory, verifier, category_info,
                                      {"witnesslint"}, "verifiers")
         THEN XMLFile(None)
         ELSE XMLFileRaises("AssertionError")
    ELSE XMLFile(<<LatestFile(xml_files)>>)

\* except Exception: the exception is logged and None is returned.
ExceptException(outcome) == IF outcome.raised # None THEN XMLFile(None) ELSE outcome

get_results_XML_file(subcategory, validator, verifier, xml_files, category_info) ==
    ExceptException(TryResultsXMLFile(subcategory, validator, verifier, xml_files,
                                      category_info))

\* Inputs.
CpvValidator == <<"cpv", "-validate-", "correctness", "-witnesses-", "2.0">>
LintValidator == <<"witnesslint", "-validate-", "correctness", "-witnesses-", "2.0">>
XMLValidators == {CpvValidator, LintValidator}
XMLVerifiers == {<<"cpachecker">>, <<"symbiotic">>}
XMLSubcategories == {<<"ReachSafety", "-Loops">>, <<"SoftwareSystems">>, <<"Demo">>}
FixedFiles == {[date |-> 1], [date |-> 2]}

XMLStructures ==
    { <<StructureEntry(<<"ReachSafety">>, vals, vers, {<<"ReachSafety", "-Loops">>}),
        StructureEntry(<<"SoftwareSystems">>, vals, {<<"symbiotic">>}, {}),
        StructureEntry(<<"Overall">>, {}, {}, {<<"ReachSafety", "-Loops">>})>> :
        vals \in {{}, {CpvValidator}, {CpvValidator, LintValidator}},
        vers \in {{}, {<<"cpachecker">>}, {<<"cpachecker">>, <<"symbiotic">>}} }

XMLOptions ==
    { {}, {<<CpvValidator, <<"ReachSafety", "-Loops">>>>},
      {<<(<<"cpachecker">>), <<"SoftwareSystems">>>>},
      {<<CpvValidator, <<"Demo">>>>, <<(<<"symbiotic">>), <<"Demo">>>>} }

NotLookedFor == [done |-> FALSE, outcome |-> XMLFile(None)]
LookedFor(outcome) == [done |-> TRUE, outcome |-> outcome]

InitResultsXML ==
    /\ results_file = RunSet(PlainRunSetName, NoRuns)
    /\ verifier_runs = results_file
    /\ validators = <<>>
    /\ linters = <<>>
    /\ invalid_tasks = {}
    /\ calls = <<>>
    /\ for_run = NotQueried
    /\ pair = Idle
    /\ database = None
    /\ pc = "results_xml"
    /\ \E categories \in XMLStructures, opt_out \in XMLOptions, opt_in \in XMLOptions,
          subcategory \in XMLSubcategories, validator \in XMLValidators,
          verifier \in XMLVerifiers, xml_files \in SUBSET FixedFiles :
          scores = [category_info |-> [categories |-> categories, opt_out |-> opt_out,
                                       opt_in |-> opt_in],
                    subcategory |-> subcategory, validator |-> validator,
                    verifier |-> verifier, xml_files |-> xml_files,
                    found |-> NotLookedFor]

GetResultsXMLFile ==
    /\ pc = "results_xml"
    /\ scores' = [scores EXCEPT
                    !.found = LookedFor(get_results_XML_file(scores.subcategory,
                                  scores.validator, scores.verifier, scores.xml_files,
                                  scores.category_info))]
    /\ pc' = "looked"
    /\ UnchangedOutsideScores

NextResultsXML == GetResultsXMLFile

SpecResultsXML == InitResultsXML /\ [][NextResultsXML]_vars

----------------------------------------------------------------------------
(* Vocabulary and properties of get_results_XML_file *)

XMLLooked == pc = "looked" /\ scores.found.done
NoFixedFile == scores.xml_files = {}
ValidatorParticipates ==
    does_tool_participate(scores.subcategory, scores.validator, scores.category_info,
                          {"witnesslint"}, "validators")
VerifierParticipates ==
    does_tool_participate(scores.subcategory, scores.verifier, scores.category_info,
                          {"witnesslint"}, "verifiers")

\* C29: without a fixed result file, get_results_XML_file returns None when the
\* validator or the verifier does not participate in the category, and lets an
\* AssertionError reach its caller when both participate.
C29_MissingFileOfParticipantsRaises ==
    (XMLLooked /\ NoFixedFile) =>
        IF ValidatorParticipates /\ VerifierParticipates
        THEN scores.found.outcome.raised = <<"AssertionError">>
        ELSE scores.found.outcome.raised = None /\ scores.found.outcome.value = None

----------------------------------------------------------------------------
(* get_validation_result on every order of the validator run sets *)

\* The orders of a list of n run sets, and the list in one of them.
Orders(n) == {f \in [1..n -> 1..n] : \A i, j \in 1..n : i # j => f[i] # f[j]}
Reordered(list, order) == [i \in 1..Len(list) |-> list[order[i]]]

OrderVerifierRows ==
    {Run(TaskName, None, <<"true">>, StatusAndCategory(<<"true">>, CATEGORY_CORRECT)),
     Run(TaskName, None, <<"false">>, StatusAndCategory(FALSE_DEREF, CATEGORY_CORRECT))}

OrderProperties == {<<"unreach-call">>, <<"valid-memsafety">>}

OrderLinterColumns ==
    {StatusOnly(s) : s \in {<<"true">>, <<"done">>, ERROR_INVALID_WITNESS_SYNTAX}}

NoOrderTried == [results |-> <<>>]

InitOrder ==
    /\ \E properties \in OrderProperties :
        /\ \E row \in OrderVerifierRows :
              results_file =
                  RunSet(PlainRunSetName, OneRun([row EXCEPT !.properties = properties]))
        /\ validators \in
              ListsUpTo({RunSet(<<"validator">>, NoRuns)} \cup
                            EvidenceRunSets(<<"validator">>, properties, ValidatorColumns),
                        MaxValidators)
        /\ linters \in
              ListsUpTo({RunSet(<<"witnesslint">>, NoRuns)} \cup
                            EvidenceRunSets(<<"witnesslint">>, properties,
                                            OrderLinterColumns),
                        MaxLinters)
    /\ verifier_runs = results_file
    /\ invalid_tasks = {}
    /\ calls = <<>>
    /\ for_run = NotQueried
    /\ database = None
    /\ scores = NoOrderTried
    /\ pc = "order"
    /\ pair = Idle

\* get_validation_result is called with the validator run sets in each order.
GetValidationResultInEveryOrder ==
    /\ pc = "order"
    /\ scores' = [results |->
                    [order \in Orders(Len(validators)) |->
                        get_validation_result(results_file.runs[TaskName],
                            Reordered(validators, order), linters,
                            ColumnValue(results_file.runs[TaskName], "status"),
                            ColumnValue(results_file.runs[TaskName], "category"))]]
    /\ pc' = "ordered"
    /\ UnchangedOutsideScores

NextOrder == GetValidationResultInEveryOrder

SpecOrder == InitOrder /\ [][NextOrder]_vars

----------------------------------------------------------------------------
(* Vocabulary and properties of the order of the validators *)

EveryOrderTried == pc = "ordered"
CategoryInOrder(order) == scores.results[order].category_wit

LintResult(i) == get_validator_linter_result(RunIn(linters, i), RunBefore)
LintPassing == {i \in WithRun(linters) : LintResult(i).category # <<"error">>}

\* The category left by the linters: none without a linter run, that of the first
\* linter that reports no error, ERROR when every linter with a run reports one.
LintCategory ==
    IF WithRun(linters) = {} THEN None
    ELSE IF LintPassing # {} THEN LintResult(First(LintPassing)).category
    ELSE <<"error">>

Unconfirmed ==
    {i \in WithRun(validators) : ValidatorResult(i).category = <<"correct", "-unconfirmed">>}

\* The category the claim names.
CategoryByValidatorsFirst ==
    IF Correct # {} THEN <<"correct">>
    ELSE IF Unconfirmed # {} \/ LintCategory = <<"correct", "-unconfirmed">>
    THEN <<"correct", "-unconfirmed">>
    ELSE <<"error">>

\* The category with the linters' rejection and confirmation taken first.
CategoryByLintersFirst ==
    IF LintCategory = <<"error">> THEN <<"error">>
    ELSE IF Correct # {} \/ LintCategory = <<"correct">> THEN <<"correct">>
    ELSE IF Unconfirmed # {} \/ LintCategory = <<"correct", "-unconfirmed">>
    THEN <<"correct", "-unconfirmed">>
    ELSE IF WithRun(validators) # {} THEN <<"error">>
    ELSE None

\* C30, as stated: for a verifier run of category CORRECT with a non-coverage property
\* every order of the validators yields the same category: CORRECT if any validator
\* result is CORRECT, else CORRECT_UNCONFIRMED if any validator or the linter result
\* is CORRECT_UNCONFIRMED, else ERROR.
C30_SameCategoryByValidatorsFirst ==
    EveryOrderTried =>
        \A order \in Orders(Len(validators)) :
            CategoryInOrder(order) = CategoryByValidatorsFirst

\* C30, amended: every order of the validators yields the same category: ERROR when
\* every linter with a run reports an error; otherwise CORRECT if any validator result
\* or the linter result is CORRECT, else CORRECT_UNCONFIRMED if any validator or the
\* linter result is CORRECT_UNCONFIRMED, else ERROR if some validator has a run, else
\* no category.
C30_SameCategoryInEveryOrder ==
    EveryOrderTried =>
        \A order \in Orders(Len(validators)) :
            CategoryInOrder(order) = CategoryByLintersFirst

\* C30, a reachable case: two validators, one confirming and one not, no linter
\* rejection; both orders were tried and both return CORRECT.
C30_Witness ==
    /\ EveryOrderTried
    /\ Len(validators) = 2
    /\ Correct = {2}
    /\ Unconfirmed = {1}
    /\ LintCategory # <<"error">>
    /\ \A order \in Orders(2) : CategoryInOrder(order) = <<"correct">>

====
